---- MODULE Spec2Model ----
(***************************************************************************)
(* A model of the vouch-verifier program                                   *)
(* (src/programs/vouch-verifier/src/lib.rs).                               *)
(*                                                                         *)
(* Every instruction is an operator from the accounts it is handed (the    *)
(* record `s`) and its arguments to a result [err, s]: the error code it   *)
(* returns ("Ok" for Ok(())) and the accounts as the handler left them in  *)
(* memory at the point of return.  The action of an instruction persists   *)
(* these accounts only when the handler returned Ok(()): an instruction    *)
(* that returns Err aborts its transaction.                                *)
(*                                                                         *)
(* Account collections are functions whose DOMAIN is the set of keys whose *)
(* program-derived account has been initialised.  A 32-byte value (public  *)
(* key, nullifier, hash) is named by a string; Bytes32 gives its bytes.    *)
(***************************************************************************)
EXTENDS Integers, Sequences, FiniteSets, TLC

VARIABLES
    config,             \* ConfigAccount, under the key "config"
    verifier_account,   \* VerifierAccount per verifier public key
    rate_limit,         \* WalletRateLimit per wallet
    nullifier_account,  \* NullifierAccount per nullifier value
    campaign,           \* AirdropCampaign per campaign id
    registration,       \* AirdropRegistrationAccount per <<campaign id, identity>>
    token,              \* the asset ledger: balance per token account owner
    now,                \* Clock::get()?.unix_timestamp
    last                \* the last instruction processed and the code it returned

vars == <<config, verifier_account, rate_limit, nullifier_account, campaign,
          registration, token, now, last>>

(***************************** program constants ***************************)

ED25519_PUBKEY_SIZE == 32
ED25519_SIGNATURE_SIZE == 64
DEFAULT_MAX_PROOFS_PER_DAY == 10
DEFAULT_COOLDOWN_SECONDS == 60
SECONDS_PER_DAY == 86400
MESSAGE_SIZE == 82
ADDRESS_MIN_LEN == 32
ADDRESS_MAX_LEN == 44
NAME_MAX_LEN == 64

(******************************* model bounds ******************************)

\* Integer widths, scaled down so that the checked and saturating operations
\* meet their limits inside the model: u32, u64 and i64 maxima.
U32_MAX == 1000
U64_MAX == 400
I64_MAX == 1000000
I64_MIN == -I64_MAX

(****************************** value universe *****************************)

\* Transaction signers (fee payers, admins, creators, claimers).
Signers == {"alice", "bob"}
\* Public keys of off-chain verifiers; "mallory" is a key no admin registers.
VerifierKeys == {"v1", "v2"}
ForeignKey == "mallory"
\* Recipient wallets.
Wallets == {"alice", "bob"}
\* Nullifier values.
Nullifiers == {"n1", "n2"}
\* Attestation hashes.
Hashes == {"h1"}
\* Campaign ids.
CampaignIds == {"c1"}

\* The first byte that distinguishes each named 32-byte value.
ByteOf(x) ==
    CASE x = "alice" -> 11 [] x = "bob" -> 12
      [] x = "v1" -> 21 [] x = "v2" -> 22 [] x = "mallory" -> 66
      [] x = "n1" -> 31 [] x = "n2" -> 32
      [] x = "h1" -> 41 [] x = "h2" -> 42
      [] x = "c1" -> 51 [] x = "c2" -> 52

\* The bytes of a named 32-byte value ([u8; 32], Pubkey::to_bytes / as_ref).
Bytes32(x) == [i \in 1..32 |-> ByteOf(x)]

(****************************** arithmetic *********************************)

\* u32/u64::checked_add(a, b).ok_or(Overflow): -1 stands for None.
checked_add(a, b, max) == IF a + b > max THEN -1 ELSE a + b

\* u32/u64::saturating_sub.
saturating_sub(a, b) == IF a - b < 0 THEN 0 ELSE a - b

\* i64::saturating_sub: saturates at the ends of the i64 range, not at zero.
saturating_sub_i64(a, b) ==
    IF a - b > I64_MAX THEN I64_MAX ELSE IF a - b < I64_MIN THEN I64_MIN ELSE a - b

(****************************** results ************************************)

Ok(s) == [err |-> "Ok", s |-> s]
Err(e, s) == [err |-> e, s |-> s]

Put(m, k, v) == [x \in (DOMAIN m) \cup {k} |-> IF x = k THEN v ELSE m[x]]
NoAccounts == [x \in {} |-> 0]

\* The accounts as stored.
St == [config |-> config, verifier_account |-> verifier_account,
       rate_limit |-> rate_limit, nullifier_account |-> nullifier_account,
       campaign |-> campaign, registration |-> registration, token |-> token]

\* What an instruction persists: Anchor writes the accounts back, and the
\* runtime keeps the transaction, only when the handler returned Ok(()).
CommitNoRollback(pre, r) == r.s

Commit(pre, r) == IF r.err = "Ok" THEN r.s ELSE pre

(************************ configuration and admin **************************)

\* #[account(init, ...)]: the account must not exist yet.
InitAccount(m, k) == IF k \in DOMAIN m THEN "AccountAlreadyInUse" ELSE "Ok"

\* Account<'info, T>: the account must exist.
LoadAccount(m, k) == IF k \in DOMAIN m THEN "Ok" ELSE "AccountNotInitialized"

InitializeConfig(s, admin) == InitAccount(s.config, "config")

initialize_config(s, admin) ==
    LET v == InitializeConfig(s, admin) IN
    IF v # "Ok" THEN Err(v, s) ELSE
    Ok([s EXCEPT !.config = Put(s.config, "config",
        [admin |-> admin,
         verifier_count |-> 0,
         is_paused |-> FALSE,
         pause_authority |-> admin,
         max_proofs_per_day |-> DEFAULT_MAX_PROOFS_PER_DAY,
         cooldown_seconds |-> DEFAULT_COOLDOWN_SECONDS,
         total_proofs_verified |-> 0])])

\* AdminControl without the constraint config.admin == admin.key().
AdminControl_AnySigner(s, admin) ==
    IF LoadAccount(s.config, "config") # "Ok" THEN "AccountNotInitialized"
    ELSE "Ok"

AdminControl(s, admin) ==
    IF LoadAccount(s.config, "config") # "Ok" THEN "AccountNotInitialized"
    ELSE IF s.config["config"].admin # admin THEN "Unauthorized"
    ELSE "Ok"

\* pause_protocol without the check that the protocol is not paused yet.
pause_protocol_Unchecked(s, admin) ==
    LET v == AdminControl(s, admin) IN
    IF v # "Ok" THEN Err(v, s) ELSE
    Ok([s EXCEPT !.config["config"].is_paused = TRUE])

pause_protocol(s, admin) ==
    LET v == AdminControl(s, admin) IN
    IF v # "Ok" THEN Err(v, s) ELSE
    IF s.config["config"].is_paused THEN Err("AlreadyPaused", s) ELSE
    Ok([s EXCEPT !.config["config"].is_paused = TRUE])

unpause_protocol(s, admin) ==
    LET v == AdminControl(s, admin) IN
    IF v # "Ok" THEN Err(v, s) ELSE
    IF ~s.config["config"].is_paused THEN Err("NotPaused", s) ELSE
    Ok([s EXCEPT !.config["config"].is_paused = FALSE])

\* update_rate_limits without the check of the cooldown's sign.
update_rate_limits_AnyCooldown(s, admin, max_proofs_per_day, cooldown_seconds) ==
    LET v == AdminControl(s, admin) IN
    IF v # "Ok" THEN Err(v, s) ELSE
    IF ~(max_proofs_per_day > 0) THEN Err("InvalidRateLimit", s) ELSE
    Ok([s EXCEPT !.config["config"].max_proofs_per_day = max_proofs_per_day,
                 !.config["config"].cooldown_seconds = cooldown_seconds])

update_rate_limits(s, admin, max_proofs_per_day, cooldown_seconds) ==
    LET v == AdminControl(s, admin) IN
    IF v # "Ok" THEN Err(v, s) ELSE
    IF ~(max_proofs_per_day > 0) THEN Err("InvalidRateLimit", s) ELSE
    IF ~(cooldown_seconds >= 0) THEN Err("InvalidRateLimit", s) ELSE
    Ok([s EXCEPT !.config["config"].max_proofs_per_day = max_proofs_per_day,
                 !.config["config"].cooldown_seconds = cooldown_seconds])

\* transfer_admin that hands over admin and leaves pause_authority behind.
transfer_admin_AdminOnly(s, admin, new_admin) ==
    LET v == AdminControl(s, admin) IN
    IF v # "Ok" THEN Err(v, s) ELSE
    Ok([s EXCEPT !.config["config"].admin = new_admin])

transfer_admin(s, admin, new_admin) ==
    LET v == AdminControl(s, admin) IN
    IF v # "Ok" THEN Err(v, s) ELSE
    Ok([s EXCEPT !.config["config"].admin = new_admin,
                 !.config["config"].pause_authority = new_admin])

(****************************** rate limiting ******************************)

InitRateLimit(s, wallet) == InitAccount(s.rate_limit, wallet)

init_rate_limit(s, wallet, t) ==
    LET v == InitRateLimit(s, wallet) IN
    IF v # "Ok" THEN Err(v, s) ELSE
    Ok([s EXCEPT !.rate_limit = Put(s.rate_limit, wallet,
        [wallet |-> wallet,
         proofs_today |-> 0,
         last_proof_at |-> 0,
         day_start |-> t,
         total_proofs |-> 0])])

\* check_and_update_rate_limit with the daily quota compared by <= instead
\* of <: one proof more than max_proofs_per_day gets through.
check_and_update_rate_limit_OffByOne(rl, cfg, t) ==
    LET time_since_last == saturating_sub_i64(t, rl.last_proof_at) IN
    IF ~(time_since_last >= cfg.cooldown_seconds) THEN
        [err |-> "RateLimitCooldown", rl |-> rl]
    ELSE
    LET rl1 == IF saturating_sub_i64(t, rl.day_start) >= SECONDS_PER_DAY
               THEN [rl EXCEPT !.day_start = t, !.proofs_today = 0]
               ELSE rl
    IN
    IF ~(rl1.proofs_today <= cfg.max_proofs_per_day) THEN
        [err |-> "DailyRateLimitExceeded", rl |-> rl1]
    ELSE
    LET p == checked_add(rl1.proofs_today, 1, U32_MAX) IN
    IF p < 0 THEN [err |-> "Overflow", rl |-> rl1] ELSE
    LET rl2 == [rl1 EXCEPT !.proofs_today = p, !.last_proof_at = t]
        tp == checked_add(rl2.total_proofs, 1, U64_MAX)
    IN
    IF tp < 0 THEN [err |-> "Overflow", rl |-> rl2] ELSE
    [err |-> "Ok", rl |-> [rl2 EXCEPT !.total_proofs = tp]]

\* check_and_update_rate_limit without the cooldown check.
check_and_update_rate_limit_NoCooldown(rl, cfg, t) ==
    LET rl1 == IF saturating_sub_i64(t, rl.day_start) >= SECONDS_PER_DAY
               THEN [rl EXCEPT !.day_start = t, !.proofs_today = 0]
               ELSE rl
    IN
    IF ~(rl1.proofs_today < cfg.max_proofs_per_day) THEN
        [err |-> "DailyRateLimitExceeded", rl |-> rl1]
    ELSE
    LET p == checked_add(rl1.proofs_today, 1, U32_MAX) IN
    IF p < 0 THEN [err |-> "Overflow", rl |-> rl1] ELSE
    LET rl2 == [rl1 EXCEPT !.proofs_today = p, !.last_proof_at = t]
        tp == checked_add(rl2.total_proofs, 1, U64_MAX)
    IN
    IF tp < 0 THEN [err |-> "Overflow", rl |-> rl2] ELSE
    [err |-> "Ok", rl |-> [rl2 EXCEPT !.total_proofs = tp]]

\* check_and_update_rate_limit that does not count the proof in total_proofs.
check_and_update_rate_limit_NoTotal(rl, cfg, t) ==
    LET time_since_last == saturating_sub_i64(t, rl.last_proof_at) IN
    IF ~(time_since_last >= cfg.cooldown_seconds) THEN
        [err |-> "RateLimitCooldown", rl |-> rl]
    ELSE
    LET rl1 == IF saturating_sub_i64(t, rl.day_start) >= SECONDS_PER_DAY
               THEN [rl EXCEPT !.day_start = t, !.proofs_today = 0]
               ELSE rl
    IN
    IF ~(rl1.proofs_today < cfg.max_proofs_per_day) THEN
        [err |-> "DailyRateLimitExceeded", rl |-> rl1]
    ELSE
    [err |-> "Ok", rl |-> [rl1 EXCEPT !.proofs_today = @ + 1, !.last_proof_at = t]]

\* check_and_update_rate_limit that starts a new window only after more than
\* SECONDS_PER_DAY.
check_and_update_rate_limit_StrictDay(rl, cfg, t) ==
    LET time_since_last == saturating_sub_i64(t, rl.last_proof_at) IN
    IF ~(time_since_last >= cfg.cooldown_seconds) THEN
        [err |-> "RateLimitCooldown", rl |-> rl]
    ELSE
    LET rl1 == IF saturating_sub_i64(t, rl.day_start) > SECONDS_PER_DAY
               THEN [rl EXCEPT !.day_start = t, !.proofs_today = 0]
               ELSE rl
    IN
    IF ~(rl1.proofs_today < cfg.max_proofs_per_day) THEN
        [err |-> "DailyRateLimitExceeded", rl |-> rl1]
    ELSE
    [err |-> "Ok", rl |-> [rl1 EXCEPT !.proofs_today = @ + 1,
                                      !.last_proof_at = t,
                                      !.total_proofs = @ + 1]]

\* check_and_update_rate_limit that stamps last_proof_at before it checks the
\* daily quota.
check_and_update_rate_limit_EagerStamp(rl, cfg, t) ==
    LET time_since_last == saturating_sub_i64(t, rl.last_proof_at) IN
    IF ~(time_since_last >= cfg.cooldown_seconds) THEN
        [err |-> "RateLimitCooldown", rl |-> rl]
    ELSE
    LET rl1 == IF saturating_sub_i64(t, rl.day_start) >= SECONDS_PER_DAY
               THEN [rl EXCEPT !.day_start = t, !.proofs_today = 0,
                               !.last_proof_at = t]
               ELSE [rl EXCEPT !.last_proof_at = t]
    IN
    IF ~(rl1.proofs_today < cfg.max_proofs_per_day) THEN
        [err |-> "DailyRateLimitExceeded", rl |-> rl1]
    ELSE
    [err |-> "Ok", rl |-> [rl1 EXCEPT !.proofs_today = @ + 1,
                                      !.total_proofs = @ + 1]]

\* check_and_update_rate_limit(rate_limit: &mut WalletRateLimit, config, now):
\* the result carries the record as the function left it, also on an error.
check_and_update_rate_limit(rl, cfg, t) ==
    LET time_since_last == saturating_sub_i64(t, rl.last_proof_at) IN
    IF ~(time_since_last >= cfg.cooldown_seconds) THEN
        [err |-> "RateLimitCooldown", rl |-> rl]
    ELSE
    LET rl1 == IF saturating_sub_i64(t, rl.day_start) >= SECONDS_PER_DAY
               THEN [rl EXCEPT !.day_start = t, !.proofs_today = 0]
               ELSE rl
    IN
    IF ~(rl1.proofs_today < cfg.max_proofs_per_day) THEN
        [err |-> "DailyRateLimitExceeded", rl |-> rl1]
    ELSE
    LET p == checked_add(rl1.proofs_today, 1, U32_MAX) IN
    IF p < 0 THEN [err |-> "Overflow", rl |-> rl1] ELSE
    LET rl2 == [rl1 EXCEPT !.proofs_today = p, !.last_proof_at = t]
        tp == checked_add(rl2.total_proofs, 1, U64_MAX)
    IN
    IF tp < 0 THEN [err |-> "Overflow", rl |-> rl2] ELSE
    [err |-> "Ok", rl |-> [rl2 EXCEPT !.total_proofs = tp]]

(*************************** verifier management ***************************)

AddVerifier(s, admin, verifier_pubkey) ==
    IF LoadAccount(s.config, "config") # "Ok" THEN "AccountNotInitialized"
    ELSE IF InitAccount(s.verifier_account, verifier_pubkey) # "Ok"
         THEN "AccountAlreadyInUse"
    ELSE IF s.config["config"].admin # admin THEN "Unauthorized"
    ELSE "Ok"

\* add_verifier without the check that the protocol is not paused.
add_verifier_NoPauseCheck(s, admin, verifier_pubkey, t) ==
    LET v == AddVerifier(s, admin, verifier_pubkey) IN
    IF v # "Ok" THEN Err(v, s) ELSE
    LET s1 == [s EXCEPT !.verifier_account = Put(s.verifier_account, verifier_pubkey,
                   [verifier |-> verifier_pubkey,
                    is_active |-> TRUE,
                    added_at |-> t,
                    attestation_count |-> 0])]
        c == checked_add(s.config["config"].verifier_count, 1, U32_MAX)
    IN
    IF c < 0 THEN Err("Overflow", s1) ELSE
    Ok([s1 EXCEPT !.config["config"].verifier_count = c])

add_verifier(s, admin, verifier_pubkey, t) ==
    LET v == AddVerifier(s, admin, verifier_pubkey) IN
    IF v # "Ok" THEN Err(v, s) ELSE
    IF s.config["config"].is_paused THEN Err("ProtocolPaused", s) ELSE
    LET s1 == [s EXCEPT !.verifier_account = Put(s.verifier_account, verifier_pubkey,
                   [verifier |-> verifier_pubkey,
                    is_active |-> TRUE,
                    added_at |-> t,
                    attestation_count |-> 0])]
        c == checked_add(s.config["config"].verifier_count, 1, U32_MAX)
    IN
    IF c < 0 THEN Err("Overflow", s1) ELSE
    Ok([s1 EXCEPT !.config["config"].verifier_count = c])

RemoveVerifier(s, admin, verifier) ==
    IF LoadAccount(s.config, "config") # "Ok" THEN "AccountNotInitialized"
    ELSE IF LoadAccount(s.verifier_account, verifier) # "Ok"
         THEN "AccountNotInitialized"
    ELSE IF s.config["config"].admin # admin THEN "Unauthorized"
    ELSE "Ok"

\* remove_verifier that closes the verifier's record instead of keeping it.
remove_verifier_Closing(s, admin, verifier) ==
    LET v == RemoveVerifier(s, admin, verifier) IN
    IF v # "Ok" THEN Err(v, s) ELSE
    IF s.config["config"].is_paused THEN Err("ProtocolPaused", s) ELSE
    Ok([s EXCEPT !.verifier_account =
                     [x \in DOMAIN s.verifier_account \ {verifier} |->
                         s.verifier_account[x]],
                 !.config["config"].verifier_count =
                     saturating_sub(s.config["config"].verifier_count, 1)])

remove_verifier(s, admin, verifier) ==
    LET v == RemoveVerifier(s, admin, verifier) IN
    IF v # "Ok" THEN Err(v, s) ELSE
    IF s.config["config"].is_paused THEN Err("ProtocolPaused", s) ELSE
    Ok([s EXCEPT !.verifier_account[verifier].is_active = FALSE,
                 !.config["config"].verifier_count =
                     saturating_sub(s.config["config"].verifier_count, 1)])

(******************************** nullifiers *******************************)

\* The account validation of init_nullifier with init_if_needed in place of
\* init: an existing record passes.
InitNullifier_IfNeeded(s, nullifier) == "Ok"

InitNullifier(s, nullifier) == InitAccount(s.nullifier_account, nullifier)

init_nullifier(s, nullifier) ==
    LET v == InitNullifier(s, nullifier) IN
    IF v # "Ok" THEN Err(v, s) ELSE
    Ok([s EXCEPT !.nullifier_account = Put(s.nullifier_account, nullifier,
        [nullifier |-> nullifier,
         is_used |-> FALSE,
         used_at |-> 0,
         proof_type |-> "Unset"])])

(************************* attestation message *****************************)

\* b"vouch_attestation"
DOMAIN_TAG == <<118, 111, 117, 99, 104, 95, 97, 116, 116, 101, 115, 116, 97,
                116, 105, 111, 110>>

\* message[0..17] = tag, message[17] = proof type, message[18..50] = nullifier,
\* message[50..82] = attestation hash.
build_attestation_message(proof_type_value, nullifier, attestation_hash) ==
    [i \in 1..MESSAGE_SIZE |->
        IF i <= 17 THEN DOMAIN_TAG[i]
        ELSE IF i = 18 THEN proof_type_value
        ELSE IF i <= 50 THEN nullifier[i - 18]
        ELSE attestation_hash[i - 50]]

(********************* instruction introspection ***************************)

\* u16::from_le_bytes([lo, hi]) and its inverse.
u16_from_le_bytes(lo, hi) == lo + 256 * hi
u16_to_le_bytes(n) == <<n % 256, n \div 256>>

\* data[off .. off + len] of a 0-based byte offset.
Slice(data, off, len) == [i \in 1..len |-> data[off + i]]

\* verify_ed25519_signature(instructions_sysvar, verifier_pubkey, signature,
\* message): ixs are the instructions of the transaction that precede the
\* current one, current_index the 0-based index of the current one.
verify_ed25519_signature(ixs, current_index, verifier_pubkey, signature, message) ==
    IF current_index = 0 THEN "InvalidSignature" ELSE
    LET ed25519_ix == ixs[(current_index - 1) + 1]
        ix_data == ed25519_ix.data
    IN
    IF ed25519_ix.program_id # "Ed25519SigVerify" THEN "InvalidSignature" ELSE
    IF Len(ix_data) < 2 THEN "InvalidSignature" ELSE
    IF ix_data[0 + 1] # 1 THEN "InvalidSignature" ELSE
    IF Len(ix_data) < 16 THEN "InvalidSignature" ELSE
    LET sig_offset == u16_from_le_bytes(ix_data[2 + 1], ix_data[3 + 1])
        pubkey_offset == u16_from_le_bytes(ix_data[6 + 1], ix_data[7 + 1])
        msg_offset == u16_from_le_bytes(ix_data[10 + 1], ix_data[11 + 1])
        msg_size == u16_from_le_bytes(ix_data[12 + 1], ix_data[13 + 1])
    IN
    IF Len(ix_data) < sig_offset + ED25519_SIGNATURE_SIZE THEN "InvalidSignature" ELSE
    IF Len(ix_data) < pubkey_offset + ED25519_PUBKEY_SIZE THEN "InvalidSignature" ELSE
    IF Len(ix_data) < msg_offset + msg_size THEN "InvalidSignature" ELSE
    IF Slice(ix_data, sig_offset, ED25519_SIGNATURE_SIZE) # signature
        THEN "InvalidSignature" ELSE
    IF Slice(ix_data, pubkey_offset, ED25519_PUBKEY_SIZE) # verifier_pubkey
        THEN "InvalidSignature" ELSE
    IF Slice(ix_data, msg_offset, msg_size) # message THEN "InvalidSignature" ELSE
    "Ok"

(***************************** record_attestation **************************)

\* The account validation of record_attestation without the constraint on
\* the nullifier record.
RecordAttestation_NoNullifierConstraint(s, verifier, nullifier, recipient) ==
    IF \/ LoadAccount(s.config, "config") # "Ok"
       \/ LoadAccount(s.verifier_account, verifier) # "Ok"
       \/ LoadAccount(s.nullifier_account, nullifier) # "Ok"
       \/ LoadAccount(s.rate_limit, recipient) # "Ok"
    THEN "AccountNotInitialized"
    ELSE IF ~s.verifier_account[verifier].is_active THEN "VerifierNotAuthorized"
    ELSE "Ok"

\* The account validation of record_attestation without the constraint on
\* the verifier record.
RecordAttestation_NoVerifierConstraint(s, verifier, nullifier, recipient) ==
    IF \/ LoadAccount(s.config, "config") # "Ok"
       \/ LoadAccount(s.verifier_account, verifier) # "Ok"
       \/ LoadAccount(s.nullifier_account, nullifier) # "Ok"
       \/ LoadAccount(s.rate_limit, recipient) # "Ok"
    THEN "AccountNotInitialized"
    ELSE IF s.nullifier_account[nullifier].is_used THEN "NullifierAlreadyUsed"
    ELSE "Ok"

RecordAttestation(s, verifier, nullifier, recipient) ==
    IF \/ LoadAccount(s.config, "config") # "Ok"
       \/ LoadAccount(s.verifier_account, verifier) # "Ok"
       \/ LoadAccount(s.nullifier_account, nullifier) # "Ok"
       \/ LoadAccount(s.rate_limit, recipient) # "Ok"
    THEN "AccountNotInitialized"
    ELSE IF ~s.verifier_account[verifier].is_active THEN "VerifierNotAuthorized"
    ELSE IF s.nullifier_account[nullifier].is_used THEN "NullifierAlreadyUsed"
    ELSE "Ok"

\* a: the accounts and arguments of the instruction
\*    [verifier, recipient, attestation_hash, proof_type_value, nullifier,
\*     signature, ixs, current_index]
record_attestation(s, a, t) ==
    LET v == RecordAttestation(s, a.verifier, a.nullifier, a.recipient) IN
    IF v # "Ok" THEN Err(v, s) ELSE
    LET cfg == s.config["config"] IN
    IF cfg.is_paused THEN Err("ProtocolPaused", s) ELSE
    IF ~s.verifier_account[a.verifier].is_active
        THEN Err("VerifierNotAuthorized", s) ELSE
    LET rl == check_and_update_rate_limit(s.rate_limit[a.recipient], cfg, t)
        s1 == [s EXCEPT !.rate_limit[a.recipient] = rl.rl]
    IN
    IF rl.err # "Ok" THEN Err(rl.err, s1) ELSE
    LET message == build_attestation_message(a.proof_type_value,
                       Bytes32(a.nullifier), Bytes32(a.attestation_hash))
        sv == verify_ed25519_signature(a.ixs, a.current_index,
                  Bytes32(s.verifier_account[a.verifier].verifier),
                  a.signature, message)
    IN
    IF sv # "Ok" THEN Err(sv, s1) ELSE
    IF s1.nullifier_account[a.nullifier].is_used
        THEN Err("NullifierAlreadyUsed", s1) ELSE
    LET s2 == [s1 EXCEPT !.nullifier_account[a.nullifier].is_used = TRUE,
                         !.nullifier_account[a.nullifier].used_at = t]
    IN
    IF a.proof_type_value \notin {1, 2} THEN Err("InvalidProofType", s2) ELSE
    LET s3 == [s2 EXCEPT !.nullifier_account[a.nullifier].proof_type =
                   IF a.proof_type_value = 1 THEN "DeveloperReputation"
                   ELSE "WhaleTrading"]
        ac == checked_add(s3.verifier_account[a.verifier].attestation_count, 1, U64_MAX)
    IN
    IF ac < 0 THEN Err("Overflow", s3) ELSE
    LET s4 == [s3 EXCEPT !.verifier_account[a.verifier].attestation_count = ac]
        tv == checked_add(s4.config["config"].total_proofs_verified, 1, U64_MAX)
    IN
    IF tv < 0 THEN Err("Overflow", s4) ELSE
    Ok([s4 EXCEPT !.config["config"].total_proofs_verified = tv])

(************ the transaction around record_attestation (host) *************)

\* The Ed25519 signature of `key` over `msg` (64 bytes), as the oracle the host
\* program verifies against: determined by the signer and the signed bytes.
Sign(key, msg) ==
    [i \in 1..ED25519_SIGNATURE_SIZE |->
        IF i = 1 THEN ByteOf(key)
        ELSE IF i = 2 THEN Len(msg)
        ELSE IF i = 3 /\ Len(msg) >= 18 THEN msg[18]
        ELSE IF i = 4 /\ Len(msg) >= 19 THEN msg[19]
        ELSE IF i = 5 /\ Len(msg) >= 51 THEN msg[51]
        ELSE 0]

AllKeys == Signers \cup Wallets \cup VerifierKeys \cup {ForeignKey}

Ed25519Valid(pubkey, msg, sig) ==
    \E k \in AllKeys : Bytes32(k) = pubkey /\ Sign(k, msg) = sig

\* u16::MAX as an instruction index: "the data is in this instruction".
THIS_IX == 256 * 255 + 255

\* One Ed25519SignatureOffsets entry (14 bytes): signature offset and
\* instruction index, public key offset and instruction index, message
\* offset, size and instruction index.
SignatureOffsets(sig_off, sig_ix, pk_off, pk_ix, msg_off, msg_size, msg_ix) ==
    u16_to_le_bytes(sig_off) \o u16_to_le_bytes(sig_ix) \o
    u16_to_le_bytes(pk_off) \o u16_to_le_bytes(pk_ix) \o
    u16_to_le_bytes(msg_off) \o u16_to_le_bytes(msg_size) \o
    u16_to_le_bytes(msg_ix)

\* Instruction data with one signature entry whose three instruction indexes
\* are `ref`, followed by public key, signature and message at 16, 48, 112.
Ed25519Data(ref, pubkey, sig, msg) ==
    <<1, 0>> \o SignatureOffsets(48, ref, 16, ref, 112, Len(msg), ref)
    \o pubkey \o sig \o msg

\* The same with two signature entries (both over the same data, at 30, 62, 126).
Ed25519DataTwo(pubkey, sig, msg) ==
    <<2, 0>> \o SignatureOffsets(62, THIS_IX, 30, THIS_IX, 126, Len(msg), THIS_IX)
    \o SignatureOffsets(62, THIS_IX, 30, THIS_IX, 126, Len(msg), THIS_IX)
    \o pubkey \o sig \o msg

\* The data an offsets entry of instruction i refers to: the host resolves an
\* instruction index other than u16::MAX to another instruction of the
\* transaction.
ReferredData(ixs, i, ix_index) ==
    IF ix_index = THIS_IX THEN ixs[i + 1].data
    ELSE IF ix_index < Len(ixs) THEN ixs[ix_index + 1].data
    ELSE <<>>

\* What the host's Ed25519 program verified for entry j of instruction i:
\* [ok, pubkey, sig, msg].
Ed25519Entry(ixs, i, j) ==
    LET d == ixs[i + 1].data
        o == 2 + 14 * j
        sig_d == ReferredData(ixs, i, u16_from_le_bytes(d[o + 3], d[o + 4]))
        pk_d == ReferredData(ixs, i, u16_from_le_bytes(d[o + 7], d[o + 8]))
        msg_d == ReferredData(ixs, i, u16_from_le_bytes(d[o + 13], d[o + 14]))
        sig_off == u16_from_le_bytes(d[o + 1], d[o + 2])
        pk_off == u16_from_le_bytes(d[o + 5], d[o + 6])
        msg_off == u16_from_le_bytes(d[o + 9], d[o + 10])
        msg_size == u16_from_le_bytes(d[o + 11], d[o + 12])
        inside == /\ sig_off + ED25519_SIGNATURE_SIZE <= Len(sig_d)
                  /\ pk_off + ED25519_PUBKEY_SIZE <= Len(pk_d)
                  /\ msg_off + msg_size <= Len(msg_d)
    IN
    IF ~inside THEN [ok |-> FALSE, pubkey |-> <<>>, sig |-> <<>>, msg |-> <<>>]
    ELSE LET pk == Slice(pk_d, pk_off, ED25519_PUBKEY_SIZE)
             sg == Slice(sig_d, sig_off, ED25519_SIGNATURE_SIZE)
             mg == Slice(msg_d, msg_off, msg_size)
         IN [ok |-> Ed25519Valid(pk, mg, sg), pubkey |-> pk, sig |-> sg, msg |-> mg]

\* The host runs the instructions of a transaction in order and aborts the
\* transaction at the first that fails: the program runs only if every Ed25519
\* instruction before it verified all its entries.
Ed25519Accepts(ixs, i) ==
    LET d == ixs[i + 1].data IN
    /\ Len(d) >= 2
    /\ ~(d[1] = 0 /\ Len(d) > 2)
    /\ Len(d) >= 2 + 14 * d[1]
    /\ \A j \in 0..(d[1] - 1) : Ed25519Entry(ixs, i, j).ok

PrecedingAccepted(ixs) ==
    \A i \in 0..(Len(ixs) - 1) :
        ixs[i + 1].program_id = "Ed25519SigVerify" => Ed25519Accepts(ixs, i)

\* The shapes of transaction a caller can wrap around
\* record_attestation(attestation_hash, proof_type_value, nullifier, signature)
\* naming `verifier`: the instructions before it, its index, and the
\* signature argument it passes.
TxKinds == {"signed", "first", "not_ed25519", "other_key", "other_message",
            "other_signature", "two_signatures", "no_signatures",
            "cross_instruction", "forged"}

OtherCode(code) == IF code = 1 THEN 2 ELSE 1

MakeTx(kind, verifier, proof_type_value, nullifier, attestation_hash) ==
    LET msg == build_attestation_message(proof_type_value, Bytes32(nullifier),
                                         Bytes32(attestation_hash))
        msg2 == build_attestation_message(OtherCode(proof_type_value),
                    Bytes32(nullifier), Bytes32(attestation_hash))
        vk == Bytes32(verifier)
        fk == Bytes32(ForeignKey)
        ed(data) == [program_id |-> "Ed25519SigVerify", data |-> data]
        forged == [i \in 1..ED25519_SIGNATURE_SIZE |-> 0]
    IN
    CASE kind = "signed" ->
            [ixs |-> <<ed(Ed25519Data(THIS_IX, vk, Sign(verifier, msg), msg))>>,
             current_index |-> 1, signature |-> Sign(verifier, msg)]
      [] kind = "first" ->
            [ixs |-> <<>>, current_index |-> 0, signature |-> Sign(verifier, msg)]
      [] kind = "not_ed25519" ->
            [ixs |-> <<[program_id |-> "Other",
                        data |-> Ed25519Data(THIS_IX, vk, Sign(verifier, msg), msg)]>>,
             current_index |-> 1, signature |-> Sign(verifier, msg)]
      [] kind = "other_key" ->
            [ixs |-> <<ed(Ed25519Data(THIS_IX, fk, Sign(ForeignKey, msg), msg))>>,
             current_index |-> 1, signature |-> Sign(ForeignKey, msg)]
      [] kind = "other_message" ->
            [ixs |-> <<ed(Ed25519Data(THIS_IX, vk, Sign(verifier, msg2), msg2))>>,
             current_index |-> 1, signature |-> Sign(verifier, msg2)]
      [] kind = "other_signature" ->
            [ixs |-> <<ed(Ed25519Data(THIS_IX, vk, Sign(verifier, msg), msg))>>,
             current_index |-> 1, signature |-> Sign(ForeignKey, msg)]
      [] kind = "two_signatures" ->
            [ixs |-> <<ed(Ed25519DataTwo(vk, Sign(verifier, msg), msg))>>,
             current_index |-> 1, signature |-> Sign(verifier, msg)]
      [] kind = "no_signatures" ->
            [ixs |-> <<ed(<<0, 0>>)>>,
             current_index |-> 1, signature |-> Sign(verifier, msg)]
      [] kind = "forged" ->
            \* the verifier's key with bytes that are no signature of it
            [ixs |-> <<ed(Ed25519Data(THIS_IX, vk, forged, msg))>>,
             current_index |-> 1, signature |-> forged]
      [] kind = "cross_instruction" ->
            \* instruction 0 carries a key, signature and message of the
            \* caller's own; instruction 1 is an Ed25519 instruction whose
            \* entry points into instruction 0, and whose own bytes at the
            \* same offsets are the verifier's key, the expected message and
            \* the bytes passed as `signature`.
            [ixs |-> <<[program_id |-> "Other",
                        data |-> Ed25519Data(THIS_IX, fk, Sign(ForeignKey, msg), msg)],
                       ed(Ed25519Data(0, vk, forged, msg))>>,
             current_index |-> 2, signature |-> forged]

(******************************* asset ledger ******************************)

\* The token account of `owner` for the campaign's mint, created when missing
\* (#[account(init_if_needed, associated_token::authority = owner)]).
init_if_needed(tok, owner) == IF owner \in DOMAIN tok THEN tok ELSE Put(tok, owner, 0)

\* token::transfer(cpi_ctx, amount): the ledger refuses a transfer from or to
\* a frozen account, or of more than the source holds.
token_transfer(tok, from, to, amount, frozen) ==
    IF frozen THEN [err |-> "TokenAccountFrozen", token |-> tok]
    ELSE IF tok[from] < amount THEN [err |-> "TokenInsufficientFunds", token |-> tok]
    ELSE IF from = to THEN [err |-> "Ok", token |-> tok]
    ELSE [err |-> "Ok",
          token |-> [tok EXCEPT ![from] = @ - amount, ![to] = @ + amount]]

(***************************** airdrop campaigns ***************************)

CreateAirdropCampaign(s, campaign_id) == InitAccount(s.campaign, campaign_id)

\* p: [name_len, token_mint, base_amount, dev_bonus, whale_bonus,
\*     registration_deadline]
create_airdrop_campaign(s, creator, campaign_id, p, t) ==
    LET v == CreateAirdropCampaign(s, campaign_id) IN
    IF v # "Ok" THEN Err(v, s) ELSE
    IF ~(p.name_len <= NAME_MAX_LEN) THEN Err("NameTooLong", s) ELSE
    IF ~(p.registration_deadline > t) THEN Err("InvalidDeadline", s) ELSE
    IF ~(p.base_amount > 0) THEN Err("InvalidAmount", s) ELSE
    Ok([s EXCEPT !.campaign = Put(s.campaign, campaign_id,
        [campaign_id |-> campaign_id,
         creator |-> creator,
         name_len |-> p.name_len,
         token_mint |-> p.token_mint,
         base_amount |-> p.base_amount,
         dev_bonus |-> p.dev_bonus,
         whale_bonus |-> p.whale_bonus,
         registration_deadline |-> p.registration_deadline,
         status |-> "Open",
         total_registrations |-> 0,
         open_registrations |-> 0,
         dev_registrations |-> 0,
         whale_registrations |-> 0,
         created_at |-> t,
         completed_at |-> 0,
         vault_balance |-> 0,
         total_claimed |-> 0])])

\* A registration record that always stores Unset as its proof type.
NewRegistration_Unset(campaign_id, id, address_len, proof_type, t) ==
    [campaign |-> campaign_id,
     nullifier |-> id,
     shadow_wire_address_len |-> address_len,
     proof_type |-> "Unset",
     registered_at |-> t,
     is_distributed |-> FALSE,
     distributed_at |-> 0,
     distribution_tx |-> "",
     is_claimed |-> FALSE,
     claimed_at |-> 0,
     claimed_amount |-> 0]

NewRegistration(campaign_id, id, address_len, proof_type, t) ==
    [campaign |-> campaign_id,
     nullifier |-> id,
     shadow_wire_address_len |-> address_len,
     proof_type |-> proof_type,
     registered_at |-> t,
     is_distributed |-> FALSE,
     distributed_at |-> 0,
     distribution_tx |-> "",
     is_claimed |-> FALSE,
     claimed_at |-> 0,
     claimed_amount |-> 0]

\* RegisterForAirdrop with the registration declared init_if_needed.
RegisterForAirdrop_IfNeeded(s, campaign_id, nullifier) ==
    IF \/ LoadAccount(s.campaign, campaign_id) # "Ok"
       \/ LoadAccount(s.nullifier_account, nullifier) # "Ok"
    THEN "AccountNotInitialized"
    ELSE IF s.campaign[campaign_id].status # "Open" THEN "CampaignNotOpen"
    ELSE IF ~s.nullifier_account[nullifier].is_used THEN "NullifierNotVerified"
    ELSE "Ok"

RegisterForAirdrop(s, campaign_id, nullifier) ==
    IF \/ LoadAccount(s.campaign, campaign_id) # "Ok"
       \/ LoadAccount(s.nullifier_account, nullifier) # "Ok"
    THEN "AccountNotInitialized"
    ELSE IF InitAccount(s.registration, <<campaign_id, nullifier>>) # "Ok"
         THEN "AccountAlreadyInUse"
    ELSE IF s.campaign[campaign_id].status # "Open" THEN "CampaignNotOpen"
    ELSE IF ~s.nullifier_account[nullifier].is_used THEN "NullifierNotVerified"
    ELSE "Ok"

register_for_airdrop(s, campaign_id, nullifier, address_len, t) ==
    LET v == RegisterForAirdrop(s, campaign_id, nullifier) IN
    IF v # "Ok" THEN Err(v, s) ELSE
    LET c == s.campaign[campaign_id]
        na == s.nullifier_account[nullifier]
    IN
    IF c.status # "Open" THEN Err("CampaignNotOpen", s) ELSE
    IF ~(t < c.registration_deadline) THEN Err("RegistrationClosed", s) ELSE
    IF ~na.is_used THEN Err("NullifierNotVerified", s) ELSE
    IF ~(address_len >= ADDRESS_MIN_LEN /\ address_len <= ADDRESS_MAX_LEN)
        THEN Err("InvalidShadowWireAddress", s) ELSE
    LET s1 == [s EXCEPT !.registration = Put(s.registration,
                   <<campaign_id, na.nullifier>>,
                   NewRegistration(campaign_id, na.nullifier, address_len,
                                   na.proof_type, t))]
        tr == checked_add(c.total_registrations, 1, U32_MAX)
    IN
    IF tr < 0 THEN Err("Overflow", s1) ELSE
    LET s2 == [s1 EXCEPT !.campaign[campaign_id].total_registrations = tr] IN
    IF na.proof_type = "DeveloperReputation" THEN
        LET n == checked_add(c.dev_registrations, 1, U32_MAX) IN
        IF n < 0 THEN Err("Overflow", s2)
        ELSE Ok([s2 EXCEPT !.campaign[campaign_id].dev_registrations = n])
    ELSE IF na.proof_type = "WhaleTrading" THEN
        LET n == checked_add(c.whale_registrations, 1, U32_MAX) IN
        IF n < 0 THEN Err("Overflow", s2)
        ELSE Ok([s2 EXCEPT !.campaign[campaign_id].whale_registrations = n])
    ELSE Err("InvalidProofType", s2)

RegisterForAirdropOpen(s, campaign_id, payer) ==
    IF LoadAccount(s.campaign, campaign_id) # "Ok" THEN "AccountNotInitialized"
    ELSE IF InitAccount(s.registration, <<campaign_id, payer>>) # "Ok"
         THEN "AccountAlreadyInUse"
    ELSE IF s.campaign[campaign_id].status # "Open" THEN "CampaignNotOpen"
    ELSE "Ok"

\* register_for_airdrop_open accepting a registration at the deadline itself.
register_for_airdrop_open_AtDeadline(s, campaign_id, payer, address_len, t) ==
    LET v == RegisterForAirdropOpen(s, campaign_id, payer) IN
    IF v # "Ok" THEN Err(v, s) ELSE
    LET c == s.campaign[campaign_id] IN
    IF c.status # "Open" THEN Err("CampaignNotOpen", s) ELSE
    IF ~(t <= c.registration_deadline) THEN Err("RegistrationClosed", s) ELSE
    IF ~(address_len >= ADDRESS_MIN_LEN /\ address_len <= ADDRESS_MAX_LEN)
        THEN Err("InvalidShadowWireAddress", s) ELSE
    LET s1 == [s EXCEPT !.registration = Put(s.registration,
                   <<campaign_id, payer>>,
                   NewRegistration(campaign_id, payer, address_len, "Unset", t))]
        s2 == [s1 EXCEPT !.campaign[campaign_id].total_registrations =
                   checked_add(c.total_registrations, 1, U32_MAX)]
    IN
    Ok([s2 EXCEPT !.campaign[campaign_id].open_registrations =
            checked_add(c.open_registrations, 1, U32_MAX)])

register_for_airdrop_open(s, campaign_id, payer, address_len, t) ==
    LET v == RegisterForAirdropOpen(s, campaign_id, payer) IN
    IF v # "Ok" THEN Err(v, s) ELSE
    LET c == s.campaign[campaign_id] IN
    IF c.status # "Open" THEN Err("CampaignNotOpen", s) ELSE
    IF ~(t < c.registration_deadline) THEN Err("RegistrationClosed", s) ELSE
    IF ~(address_len >= ADDRESS_MIN_LEN /\ address_len <= ADDRESS_MAX_LEN)
        THEN Err("InvalidShadowWireAddress", s) ELSE
    LET wallet_id == payer
        s1 == [s EXCEPT !.registration = Put(s.registration,
                   <<campaign_id, payer>>,
                   NewRegistration(campaign_id, wallet_id, address_len, "Unset", t))]
        tr == checked_add(c.total_registrations, 1, U32_MAX)
    IN
    IF tr < 0 THEN Err("Overflow", s1) ELSE
    LET s2 == [s1 EXCEPT !.campaign[campaign_id].total_registrations = tr]
        n == checked_add(c.open_registrations, 1, U32_MAX)
    IN
    IF n < 0 THEN Err("Overflow", s2) ELSE
    Ok([s2 EXCEPT !.campaign[campaign_id].open_registrations = n])

\* CloseAirdropRegistration and CompleteAirdropCampaign: the same constraints.
CreatorControl(s, campaign_id, creator) ==
    IF LoadAccount(s.campaign, campaign_id) # "Ok" THEN "AccountNotInitialized"
    ELSE IF s.campaign[campaign_id].creator # creator THEN "Unauthorized"
    ELSE "Ok"

\* close_airdrop_registration without the check of the current status.
close_airdrop_registration_AnyStatus(s, campaign_id, creator) ==
    LET v == CreatorControl(s, campaign_id, creator) IN
    IF v # "Ok" THEN Err(v, s) ELSE
    Ok([s EXCEPT !.campaign[campaign_id].status = "RegistrationClosed"])

close_airdrop_registration(s, campaign_id, creator) ==
    LET v == CreatorControl(s, campaign_id, creator) IN
    IF v # "Ok" THEN Err(v, s) ELSE
    IF s.campaign[campaign_id].status # "Open" THEN Err("CampaignNotOpen", s) ELSE
    Ok([s EXCEPT !.campaign[campaign_id].status = "RegistrationClosed"])

MarkAirdropDistributed(s, campaign_id, id, creator) ==
    IF \/ LoadAccount(s.campaign, campaign_id) # "Ok"
       \/ LoadAccount(s.registration, <<campaign_id, id>>) # "Ok"
    THEN "AccountNotInitialized"
    ELSE IF s.campaign[campaign_id].creator # creator THEN "Unauthorized"
    ELSE IF s.registration[<<campaign_id, id>>].campaign # campaign_id
         THEN "InvalidCampaign"
    ELSE "Ok"

\* mark_airdrop_distributed without the guard on is_distributed.
mark_airdrop_distributed_Repeatable(s, campaign_id, id, creator, tx_signature, t) ==
    LET v == MarkAirdropDistributed(s, campaign_id, id, creator) IN
    IF v # "Ok" THEN Err(v, s) ELSE
    Ok([s EXCEPT !.registration[<<campaign_id, id>>].is_distributed = TRUE,
                 !.registration[<<campaign_id, id>>].distributed_at = t,
                 !.registration[<<campaign_id, id>>].distribution_tx = tx_signature])

mark_airdrop_distributed(s, campaign_id, id, creator, tx_signature, t) ==
    LET v == MarkAirdropDistributed(s, campaign_id, id, creator) IN
    IF v # "Ok" THEN Err(v, s) ELSE
    IF s.registration[<<campaign_id, id>>].is_distributed
        THEN Err("AlreadyDistributed", s) ELSE
    Ok([s EXCEPT !.registration[<<campaign_id, id>>].is_distributed = TRUE,
                 !.registration[<<campaign_id, id>>].distributed_at = t,
                 !.registration[<<campaign_id, id>>].distribution_tx = tx_signature])

complete_airdrop_campaign(s, campaign_id, creator, t) ==
    LET v == CreatorControl(s, campaign_id, creator) IN
    IF v # "Ok" THEN Err(v, s) ELSE
    IF s.campaign[campaign_id].status # "RegistrationClosed"
        THEN Err("CampaignNotClosed", s) ELSE
    Ok([s EXCEPT !.campaign[campaign_id].status = "Completed",
                 !.campaign[campaign_id].completed_at = t])

\* FundAirdropCampaign without the constraint that the signer is the creator.
FundAirdropCampaign_AnyFunder(s, campaign_id, creator) ==
    IF \/ LoadAccount(s.campaign, campaign_id) # "Ok"
       \/ LoadAccount(s.token, creator) # "Ok"
    THEN Err("AccountNotInitialized", s)
    ELSE Ok([s EXCEPT !.token = init_if_needed(s.token, campaign_id)])

\* The accounts as validation leaves them: the vault is created when missing.
FundAirdropCampaign(s, campaign_id, creator) ==
    IF \/ LoadAccount(s.campaign, campaign_id) # "Ok"
       \/ LoadAccount(s.token, creator) # "Ok"
    THEN Err("AccountNotInitialized", s) ELSE
    LET s1 == [s EXCEPT !.token = init_if_needed(s.token, campaign_id)] IN
    IF s.campaign[campaign_id].creator # creator THEN Err("Unauthorized", s1)
    ELSE Ok(s1)

\* fund_airdrop_campaign that moves the tokens and leaves vault_balance alone.
fund_airdrop_campaign_NoBookkeeping(s, campaign_id, creator, amount, frozen) ==
    LET v == FundAirdropCampaign(s, campaign_id, creator) IN
    IF v.err # "Ok" THEN v ELSE
    LET s1 == v.s
        c == s1.campaign[campaign_id]
    IN
    IF ~(amount > 0) THEN Err("InvalidAmount", s1) ELSE
    IF ~(c.status = "Open" \/ c.status = "RegistrationClosed")
        THEN Err("CampaignNotOpen", s1) ELSE
    LET tr == token_transfer(s1.token, creator, campaign_id, amount, frozen) IN
    IF tr.err # "Ok" THEN Err(tr.err, s1) ELSE Ok([s1 EXCEPT !.token = tr.token])

fund_airdrop_campaign(s, campaign_id, creator, amount, frozen) ==
    LET v == FundAirdropCampaign(s, campaign_id, creator) IN
    IF v.err # "Ok" THEN v ELSE
    LET s1 == v.s
        c == s1.campaign[campaign_id]
    IN
    IF ~(amount > 0) THEN Err("InvalidAmount", s1) ELSE
    IF ~(c.status = "Open" \/ c.status = "RegistrationClosed")
        THEN Err("CampaignNotOpen", s1) ELSE
    LET tr == token_transfer(s1.token, creator, campaign_id, amount, frozen)
        s2 == [s1 EXCEPT !.token = tr.token]
    IN
    IF tr.err # "Ok" THEN Err(tr.err, s2) ELSE
    LET vb == checked_add(c.vault_balance, amount, U64_MAX) IN
    IF vb < 0 THEN Err("Overflow", s2) ELSE
    Ok([s2 EXCEPT !.campaign[campaign_id].vault_balance = vb])

\* The accounts as validation leaves them: the claimer's token account is
\* created when missing; the vault must exist.
ClaimAirdrop(s, campaign_id, id, claimer) ==
    IF \/ LoadAccount(s.campaign, campaign_id) # "Ok"
       \/ LoadAccount(s.token, campaign_id) # "Ok"
       \/ LoadAccount(s.registration, <<campaign_id, id>>) # "Ok"
    THEN Err("AccountNotInitialized", s) ELSE
    LET s1 == [s EXCEPT !.token = init_if_needed(s.token, claimer)] IN
    IF s.registration[<<campaign_id, id>>].campaign # campaign_id
        THEN Err("InvalidCampaign", s1)
    ELSE IF s.registration[<<campaign_id, id>>].is_claimed
        THEN Err("AlreadyClaimed", s1)
    ELSE Ok(s1)

\* claim_amount_of with the two bonuses taken for each other.
claim_amount_of_Swapped(proof_type, base_amount, dev_bonus, whale_bonus) ==
    IF proof_type = "DeveloperReputation"
        THEN checked_add(base_amount, whale_bonus, U64_MAX)
    ELSE IF proof_type = "WhaleTrading"
        THEN checked_add(base_amount, dev_bonus, U64_MAX)
    ELSE base_amount

\* The amount of a claim: -1 when the checked addition overflows.
claim_amount_of(proof_type, base_amount, dev_bonus, whale_bonus) ==
    IF proof_type = "DeveloperReputation"
        THEN checked_add(base_amount, dev_bonus, U64_MAX)
    ELSE IF proof_type = "WhaleTrading"
        THEN checked_add(base_amount, whale_bonus, U64_MAX)
    ELSE base_amount

\* claim_airdrop that refuses while the protocol is paused.
claim_airdrop_WhenNotPaused(s, campaign_id, id, claimer, frozen, t) ==
    LET v == ClaimAirdrop(s, campaign_id, id, claimer) IN
    IF v.err # "Ok" THEN v ELSE
    LET s1 == v.s
        r == s1.registration[<<campaign_id, id>>]
        c == s1.campaign[campaign_id]
    IN
    IF s1.config["config"].is_paused THEN Err("ProtocolPaused", s1) ELSE
    IF r.is_claimed THEN Err("AlreadyClaimed", s1) ELSE
    LET claim_amount == claim_amount_of(r.proof_type, c.base_amount,
                                        c.dev_bonus, c.whale_bonus)
    IN
    IF claim_amount < 0 THEN Err("Overflow", s1) ELSE
    IF ~(s1.token[campaign_id] >= claim_amount) THEN Err("InsufficientFunds", s1) ELSE
    LET tr == token_transfer(s1.token, campaign_id, claimer, claim_amount, frozen)
        s2 == [s1 EXCEPT !.token = tr.token]
    IN
    IF tr.err # "Ok" THEN Err(tr.err, s2) ELSE
    LET s3 == [s2 EXCEPT !.registration[<<campaign_id, id>>].is_claimed = TRUE,
                         !.registration[<<campaign_id, id>>].claimed_at = t,
                         !.registration[<<campaign_id, id>>].claimed_amount = claim_amount,
                         !.campaign[campaign_id].vault_balance =
                             saturating_sub(c.vault_balance, claim_amount)]
        tc == checked_add(c.total_claimed, 1, U32_MAX)
    IN
    IF tc < 0 THEN Err("Overflow", s3) ELSE
    Ok([s3 EXCEPT !.campaign[campaign_id].total_claimed = tc])

\* claim_airdrop that pays the claim and forgets to mark the registration.
claim_airdrop_NotMarked(s, campaign_id, id, claimer, frozen, t) ==
    LET v == ClaimAirdrop(s, campaign_id, id, claimer) IN
    IF v.err # "Ok" THEN v ELSE
    LET s1 == v.s
        r == s1.registration[<<campaign_id, id>>]
        c == s1.campaign[campaign_id]
    IN
    IF r.is_claimed THEN Err("AlreadyClaimed", s1) ELSE
    LET claim_amount == claim_amount_of(r.proof_type, c.base_amount,
                                        c.dev_bonus, c.whale_bonus)
    IN
    IF claim_amount < 0 THEN Err("Overflow", s1) ELSE
    IF ~(s1.token[campaign_id] >= claim_amount) THEN Err("InsufficientFunds", s1) ELSE
    LET tr == token_transfer(s1.token, campaign_id, claimer, claim_amount, frozen)
        s2 == [s1 EXCEPT !.token = tr.token]
    IN
    IF tr.err # "Ok" THEN Err(tr.err, s2) ELSE
    LET s3 == [s2 EXCEPT !.registration[<<campaign_id, id>>].claimed_at = t,
                         !.registration[<<campaign_id, id>>].claimed_amount = claim_amount,
                         !.campaign[campaign_id].vault_balance =
                             saturating_sub(c.vault_balance, claim_amount)]
        tc == checked_add(c.total_claimed, 1, U32_MAX)
    IN
    IF tc < 0 THEN Err("Overflow", s3) ELSE
    Ok([s3 EXCEPT !.campaign[campaign_id].total_claimed = tc])

\* claim_airdrop that asks the vault to hold more than the claim amount.
claim_airdrop_StrictFunds(s, campaign_id, id, claimer, frozen, t) ==
    LET v == ClaimAirdrop(s, campaign_id, id, claimer) IN
    IF v.err # "Ok" THEN v ELSE
    LET s1 == v.s
        r == s1.registration[<<campaign_id, id>>]
        c == s1.campaign[campaign_id]
    IN
    IF r.is_claimed THEN Err("AlreadyClaimed", s1) ELSE
    LET claim_amount == claim_amount_of(r.proof_type, c.base_amount,
                                        c.dev_bonus, c.whale_bonus)
    IN
    IF claim_amount < 0 THEN Err("Overflow", s1) ELSE
    IF ~(s1.token[campaign_id] > claim_amount) THEN Err("InsufficientFunds", s1) ELSE
    LET tr == token_transfer(s1.token, campaign_id, claimer, claim_amount, frozen)
        s2 == [s1 EXCEPT !.token = tr.token]
    IN
    IF tr.err # "Ok" THEN Err(tr.err, s2) ELSE
    LET s3 == [s2 EXCEPT !.registration[<<campaign_id, id>>].is_claimed = TRUE,
                         !.registration[<<campaign_id, id>>].claimed_at = t,
                         !.registration[<<campaign_id, id>>].claimed_amount = claim_amount,
                         !.campaign[campaign_id].vault_balance =
                             saturating_sub(c.vault_balance, claim_amount)]
        tc == checked_add(c.total_claimed, 1, U32_MAX)
    IN
    IF tc < 0 THEN Err("Overflow", s3) ELSE
    Ok([s3 EXCEPT !.campaign[campaign_id].total_claimed = tc])

claim_airdrop(s, campaign_id, id, claimer, frozen, t) ==
    LET v == ClaimAirdrop(s, campaign_id, id, claimer) IN
    IF v.err # "Ok" THEN v ELSE
    LET s1 == v.s
        r == s1.registration[<<campaign_id, id>>]
        c == s1.campaign[campaign_id]
    IN
    IF r.is_claimed THEN Err("AlreadyClaimed", s1) ELSE
    LET claim_amount == claim_amount_of(r.proof_type, c.base_amount,
                                        c.dev_bonus, c.whale_bonus)
    IN
    IF claim_amount < 0 THEN Err("Overflow", s1) ELSE
    IF ~(s1.token[campaign_id] >= claim_amount) THEN Err("InsufficientFunds", s1) ELSE
    LET tr == token_transfer(s1.token, campaign_id, claimer, claim_amount, frozen)
        s2 == [s1 EXCEPT !.token = tr.token]
    IN
    IF tr.err # "Ok" THEN Err(tr.err, s2) ELSE
    LET s3 == [s2 EXCEPT !.registration[<<campaign_id, id>>].is_claimed = TRUE,
                         !.registration[<<campaign_id, id>>].claimed_at = t,
                         !.registration[<<campaign_id, id>>].claimed_amount = claim_amount,
                         !.campaign[campaign_id].vault_balance =
                             saturating_sub(c.vault_balance, claim_amount)]
        tc == checked_add(c.total_claimed, 1, U32_MAX)
    IN
    IF tc < 0 THEN Err("Overflow", s3) ELSE
    Ok([s3 EXCEPT !.campaign[campaign_id].total_claimed = tc])

(********************************* actions *********************************)

\* One instruction, processed as one transaction: the accounts it leaves
\* behind and the code it returned.
Process(op, r) ==
    LET post == Commit(St, r) IN
    /\ config' = post.config
    /\ verifier_account' = post.verifier_account
    /\ rate_limit' = post.rate_limit
    /\ nullifier_account' = post.nullifier_account
    /\ campaign' = post.campaign
    /\ registration' = post.registration
    /\ token' = post.token
    /\ last' = [op |-> op, err |-> r.err]
    /\ now' = now

\* Arguments tried for update_rate_limits.
MaxPerDayArgs == {0, 1, 2}
CooldownArgs == {-1, 0, 60}

\* Arguments tried for proof_type_value.
ProofTypeCodes == {1, 2, 3}

\* Every transaction shape for every choice of arguments, and whether the host
\* lets it reach the program.
TxTable ==
    [kind \in TxKinds, v \in VerifierKeys, code \in ProofTypeCodes,
     n \in Nullifiers, h \in Hashes |->
        LET tx == MakeTx(kind, v, code, n, h) IN
        [tx |-> tx, accepted |-> PrecedingAccepted(tx.ixs)]]

Init ==
    /\ config = NoAccounts
    /\ verifier_account = NoAccounts
    /\ rate_limit = NoAccounts
    /\ nullifier_account = NoAccounts
    /\ campaign = NoAccounts
    /\ registration = NoAccounts
    /\ token = [x \in {"alice"} |-> 300]
    /\ now = 0
    /\ last = [op |-> "none", err |-> "Ok"]

\* The clock moves on to a later value of T.
ClockAdvance(T) ==
    /\ \E t \in T : t > now /\ now' = t
    /\ UNCHANGED <<config, verifier_account, rate_limit, nullifier_account,
                   campaign, registration, token, last>>

InitializeConfigTx(A) ==
    \E a \in A : Process("initialize_config", initialize_config(St, a))

PauseProtocolTx(A) ==
    \E a \in A : Process("pause_protocol", pause_protocol(St, a))

UnpauseProtocolTx(A) ==
    \E a \in A : Process("unpause_protocol", unpause_protocol(St, a))

UpdateRateLimitsTx(A, M, C) ==
    \E a \in A, m \in M, c \in C :
        Process("update_rate_limits", update_rate_limits(St, a, m, c))

TransferAdminTx(A) ==
    \E a \in A, n \in A :
        Process("transfer_admin", transfer_admin(St, a, n))

InitRateLimitTx(W) ==
    \E w \in W : Process("init_rate_limit", init_rate_limit(St, w, now))

AddVerifierTx(A, V) ==
    \E a \in A, v \in V :
        Process("add_verifier", add_verifier(St, a, v, now))

RemoveVerifierTx(A, V) ==
    \E a \in A, v \in V :
        Process("remove_verifier", remove_verifier(St, a, v))

InitNullifierTx(N) ==
    \E n \in N : Process("init_nullifier", init_nullifier(St, n))

\* The arguments of a record_attestation wrapped in a transaction of `kind`.
AttestationArgs(kind, v, w, n, h, code) ==
    LET tx == TxTable[kind, v, code, n, h].tx IN
    [verifier |-> v, recipient |-> w, attestation_hash |-> h,
     proof_type_value |-> code, nullifier |-> n, signature |-> tx.signature,
     ixs |-> tx.ixs, current_index |-> tx.current_index]

\* The record_attestation calls, over the given argument sets, that the host
\* lets reach the program.
AttestationInputs(K, V, W, N, H, PC) ==
    {AttestationArgs(x[1], x[2], x[3], x[4], x[5], x[6]) :
        x \in {y \in K \X V \X W \X N \X H \X PC :
                  TxTable[y[1], y[2], y[6], y[4], y[5]].accepted}}

RecordAttestationTx(I) ==
    \E a \in I : Process("record_attestation", record_attestation(St, a, now))

\* The attestation side of the program: one admin candidate and one outsider,
\* one verifier, one wallet, two nullifiers.
Times == {0, 30, 61, 86461}
SpecKinds == {"signed", "other_key"}
SpecInputs ==
    AttestationInputs(SpecKinds, {"v1"}, {"alice"}, Nullifiers, Hashes, ProofTypeCodes)

Next ==
    \/ ClockAdvance(Times)
    \/ InitializeConfigTx({"alice"})
    \/ PauseProtocolTx(Signers)
    \/ UnpauseProtocolTx(Signers)
    \/ UpdateRateLimitsTx(Signers, MaxPerDayArgs, CooldownArgs)
    \/ InitRateLimitTx({"alice"})
    \/ AddVerifierTx(Signers, {"v1"})
    \/ RemoveVerifierTx(Signers, {"v1"})
    \/ InitNullifierTx(Nullifiers)
    \/ RecordAttestationTx(SpecInputs)

Spec == Init /\ [][Next]_vars

(*********** the signature check under every transaction shape ************)

SigTimes == {0, 61, 122}
SigInputs ==
    AttestationInputs(TxKinds, {"v1"}, {"alice"}, Nullifiers, Hashes, ProofTypeCodes)

NextSig ==
    \/ ClockAdvance(SigTimes)
    \/ InitializeConfigTx({"alice"})
    \/ PauseProtocolTx({"alice"})
    \/ UnpauseProtocolTx({"alice"})
    \/ InitRateLimitTx({"alice"})
    \/ AddVerifierTx({"alice"}, {"v1"})
    \/ InitNullifierTx(Nullifiers)
    \/ RecordAttestationTx(SigInputs)

SpecSig == Init /\ [][NextSig]_vars

(**************************** the airdrop side *****************************)

CreateAirdropCampaignTx(A, C, P) ==
    \E a \in A, c \in C, p \in P :
        Process("create_airdrop_campaign", create_airdrop_campaign(St, a, c, p, now))

RegisterForAirdropTx(C, N, L) ==
    \E c \in C, n \in N, len \in L :
        Process("register_for_airdrop", register_for_airdrop(St, c, n, len, now))

RegisterForAirdropOpenTx(C, A, L) ==
    \E c \in C, a \in A, len \in L :
        Process("register_for_airdrop_open",
                register_for_airdrop_open(St, c, a, len, now))

CloseAirdropRegistrationTx(C, A) ==
    \E c \in C, a \in A :
        Process("close_airdrop_registration", close_airdrop_registration(St, c, a))

MarkAirdropDistributedTx(C, ID, A, X) ==
    \E c \in C, id \in ID, a \in A, x \in X :
        Process("mark_airdrop_distributed",
                mark_airdrop_distributed(St, c, id, a, x, now))

CompleteAirdropCampaignTx(C, A) ==
    \E c \in C, a \in A :
        Process("complete_airdrop_campaign", complete_airdrop_campaign(St, c, a, now))

FundAirdropCampaignTx(C, A, AM) ==
    \E c \in C, a \in A, amount \in AM, frozen \in BOOLEAN :
        Process("fund_airdrop_campaign",
                fund_airdrop_campaign(St, c, a, amount, frozen))

ClaimAirdropTx(C, ID, A) ==
    \E c \in C, id \in ID, a \in A, frozen \in BOOLEAN :
        Process("claim_airdrop", claim_airdrop(St, c, id, a, frozen, now))

\* The accounts the airdrop side starts from: the program deployed and
\* configured by alice, verifier v1 added, and two credentials issued to
\* alice's wallet: n1 as DeveloperReputation at 61, n2 as WhaleTrading at 122.
NoState ==
    [config |-> NoAccounts, verifier_account |-> NoAccounts,
     rate_limit |-> NoAccounts, nullifier_account |-> NoAccounts,
     campaign |-> NoAccounts, registration |-> NoAccounts,
     token |-> [x \in {"alice"} |-> 300]]

AirdropStart ==
    LET s1 == initialize_config(NoState, "alice").s
        s2 == add_verifier(s1, "alice", "v1", 0).s
        s3 == init_rate_limit(s2, "alice", 0).s
        s4 == init_nullifier(s3, "n1").s
        s5 == init_nullifier(s4, "n2").s
        s6 == record_attestation(s5,
                  AttestationArgs("signed", "v1", "alice", "n1", "h1", 1), 61).s
    IN record_attestation(s6,
           AttestationArgs("signed", "v1", "alice", "n2", "h1", 2), 122).s

InitAirdrop ==
    /\ config = AirdropStart.config
    /\ verifier_account = AirdropStart.verifier_account
    /\ rate_limit = AirdropStart.rate_limit
    /\ nullifier_account = AirdropStart.nullifier_account
    /\ campaign = AirdropStart.campaign
    /\ registration = AirdropStart.registration
    /\ token = AirdropStart.token
    /\ now = 200
    /\ last = [op |-> "record_attestation", err |-> "Ok"]

AirdropTimes == {200, 300}

\* Campaign parameters tried: the tiers of the worked example, a base amount
\* of zero, and a base amount at the top of the u64 range.
CampaignParams ==
    {[name_len |-> 8, token_mint |-> "mint", base_amount |-> b[1],
      dev_bonus |-> b[2], whale_bonus |-> b[3], registration_deadline |-> 300] :
        b \in {<<100, 50, 200>>, <<0, 50, 200>>, <<U64_MAX, 1, 0>>}}

AddressLens == {31, 44}
FundAmounts == {0, 100}
\* Who registers: the two credentials, and bob without one.
Identities == {"n1", "n2", "bob"}

NextAirdrop ==
    \/ ClockAdvance(AirdropTimes)
    \/ CreateAirdropCampaignTx({"alice"}, CampaignIds, CampaignParams)
    \/ RegisterForAirdropTx(CampaignIds, Nullifiers, AddressLens)
    \/ RegisterForAirdropOpenTx(CampaignIds, {"bob"}, AddressLens)
    \/ CloseAirdropRegistrationTx(CampaignIds, Signers)
    \/ CompleteAirdropCampaignTx(CampaignIds, Signers)
    \/ FundAirdropCampaignTx(CampaignIds, Signers, FundAmounts)
    \/ ClaimAirdropTx(CampaignIds, Identities, Signers)

SpecAirdrop == InitAirdrop /\ [][NextAirdrop]_vars

(***************************** registration ********************************)

\* The accounts registration starts from: as AirdropStart, except that n2 was
\* only initialised and never consumed by an attestation.
RegisterStart ==
    LET s1 == initialize_config(NoState, "alice").s
        s2 == add_verifier(s1, "alice", "v1", 0).s
        s3 == init_rate_limit(s2, "alice", 0).s
        s4 == init_nullifier(s3, "n1").s
        s5 == init_nullifier(s4, "n2").s
    IN record_attestation(s5,
           AttestationArgs("signed", "v1", "alice", "n1", "h1", 1), 61).s

InitRegister ==
    /\ config = RegisterStart.config
    /\ verifier_account = RegisterStart.verifier_account
    /\ rate_limit = RegisterStart.rate_limit
    /\ nullifier_account = RegisterStart.nullifier_account
    /\ campaign = RegisterStart.campaign
    /\ registration = RegisterStart.registration
    /\ token = RegisterStart.token
    /\ now = 200
    /\ last = [op |-> "record_attestation", err |-> "Ok"]

RegisterCampaigns == {"c1", "c2"}
RegisterParams ==
    {[name_len |-> 8, token_mint |-> "mint", base_amount |-> 100,
      dev_bonus |-> 50, whale_bonus |-> 200, registration_deadline |-> 300]}
\* Address lengths on both sides of each end of the accepted range, for the
\* calls a state is asked about; the calls made use AddressLens.
RegisterLens == {31, 32, 44, 45}

NextRegister ==
    \/ ClockAdvance(AirdropTimes)
    \/ CreateAirdropCampaignTx({"alice"}, RegisterCampaigns, RegisterParams)
    \/ RegisterForAirdropTx(RegisterCampaigns, Nullifiers, AddressLens)
    \/ RegisterForAirdropOpenTx(RegisterCampaigns, Signers, AddressLens)
    \/ CloseAirdropRegistrationTx(RegisterCampaigns, Signers)
    \/ CompleteAirdropCampaignTx(RegisterCampaigns, Signers)

SpecRegister == InitRegister /\ [][NextRegister]_vars

(***************************** distribution ********************************)

\* The accounts distribution starts from: as AirdropStart, then campaign c1
\* created by alice at 200 with the tiers of the worked example
\* (DistributeCampaign), n1 and bob registered in it (DistributeRegistered),
\* and 300 tokens moved into its vault.
DistributeCampaign ==
    create_airdrop_campaign(AirdropStart, "alice", "c1",
        [name_len |-> 8, token_mint |-> "mint", base_amount |-> 100,
         dev_bonus |-> 50, whale_bonus |-> 200, registration_deadline |-> 300],
        200).s

DistributeRegistered ==
    register_for_airdrop_open(
        register_for_airdrop(DistributeCampaign, "c1", "n1", 44, 200).s,
        "c1", "bob", 44, 200).s

DistributeStart ==
    fund_airdrop_campaign(DistributeRegistered, "c1", "alice", 300, FALSE).s

InitDistribute ==
    /\ config = DistributeStart.config
    /\ verifier_account = DistributeStart.verifier_account
    /\ rate_limit = DistributeStart.rate_limit
    /\ nullifier_account = DistributeStart.nullifier_account
    /\ campaign = DistributeStart.campaign
    /\ registration = DistributeStart.registration
    /\ token = DistributeStart.token
    /\ now = 200
    /\ last = [op |-> "fund_airdrop_campaign", err |-> "Ok"]

\* Who is marked and who claims: one credential, and bob without one.
DistributeIdentities == {"n1", "bob"}
\* References of the out-of-band payouts.
TxSignatures == {"tx1", "tx2"}

NextDistribute ==
    \/ ClockAdvance(AirdropTimes)
    \/ MarkAirdropDistributedTx(CampaignIds, DistributeIdentities, Signers,
                                TxSignatures)
    \/ ClaimAirdropTx(CampaignIds, DistributeIdentities, Signers)
    \/ CloseAirdropRegistrationTx(CampaignIds, {"alice"})

SpecDistribute == InitDistribute /\ [][NextDistribute]_vars

(************************* conflicting invocations *************************)

\* The accounts the conflicting calls start from: the program configured by
\* alice, verifiers v1 and v2 added, rate-limit records for alice and bob,
\* n1 issued to alice as DeveloperReputation at 61 and n2 still unused,
\* campaign c1 created at 200 with n1 and bob registered, 300 tokens in its
\* vault.
RaceAccounts ==
    LET s1 == initialize_config(NoState, "alice").s
        s2 == add_verifier(s1, "alice", "v1", 0).s
        s3 == add_verifier(s2, "alice", "v2", 0).s
        s4 == init_rate_limit(s3, "alice", 0).s
        s5 == init_rate_limit(s4, "bob", 0).s
        s6 == init_nullifier(s5, "n1").s
    IN init_nullifier(s6, "n2").s

RaceAttested ==
    record_attestation(RaceAccounts,
        AttestationArgs("signed", "v1", "alice", "n1", "h1", 1), 61).s

RaceCampaign ==
    create_airdrop_campaign(RaceAttested, "alice", "c1",
        [name_len |-> 8, token_mint |-> "mint", base_amount |-> 100,
         dev_bonus |-> 50, whale_bonus |-> 200, registration_deadline |-> 300],
        200).s

RaceRegistered ==
    register_for_airdrop_open(
        register_for_airdrop(RaceCampaign, "c1", "n1", 44, 200).s,
        "c1", "bob", 44, 200).s

RaceStart ==
    fund_airdrop_campaign(RaceRegistered, "c1", "alice", 300, FALSE).s

InitRace ==
    /\ config = RaceStart.config
    /\ verifier_account = RaceStart.verifier_account
    /\ rate_limit = RaceStart.rate_limit
    /\ nullifier_account = RaceStart.nullifier_account
    /\ campaign = RaceStart.campaign
    /\ registration = RaceStart.registration
    /\ token = RaceStart.token
    /\ now = 200
    /\ last = [op |-> "fund_airdrop_campaign", err |-> "Ok"]

\* The record_attestation calls submitted: through either verifier, for
\* either wallet, on either nullifier, correctly signed or signed by a
\* foreign key.
RaceInputs ==
    AttestationInputs(SpecKinds, VerifierKeys, Wallets, Nullifiers, Hashes, {1, 2})

NextRace ==
    \/ ClockAdvance(AirdropTimes)
    \/ RecordAttestationTx(RaceInputs)
    \/ ClaimAirdropTx(CampaignIds, DistributeIdentities, Signers)

SpecRace == InitRace /\ [][NextRace]_vars

(********************** a signed proof used again **************************)

\* The triples (proof_type_value, nullifier, attestation_hash) a verifier signs
\* and a caller passes.
ReplayTriples == {1, 2} \X Nullifiers \X {"h1", "h2"}

ReplayMessage(x) ==
    build_attestation_message(x[1], Bytes32(x[2]), Bytes32(x[3]))

\* How a caller holding the verifier's proof for the triple `signed` wraps a
\* call for the triple `called`: "direct" puts the proof right before the
\* call; "cross_instruction" puts it first and follows it with an Ed25519
\* instruction whose entry points into it and whose own bytes are the
\* verifier's key, the signature and the message of `called`.
ReplayShapes == {"direct", "cross_instruction"}

ReplayArgs(shape, v, w, signed, called) ==
    LET sig == Sign(v, ReplayMessage(signed))
        proof == [program_id |-> "Ed25519SigVerify",
                  data |-> Ed25519Data(THIS_IX, Bytes32(v), sig,
                                       ReplayMessage(signed))]
        pointer == [program_id |-> "Ed25519SigVerify",
                    data |-> Ed25519Data(0, Bytes32(v), sig, ReplayMessage(called))]
    IN
    [verifier |-> v, recipient |-> w, attestation_hash |-> called[3],
     proof_type_value |-> called[1], nullifier |-> called[2], signature |-> sig,
     ixs |-> IF shape = "direct" THEN <<proof>> ELSE <<proof, pointer>>,
     current_index |-> IF shape = "direct" THEN 1 ELSE 2]

\* The calls the host lets reach the program, each with the triple that was
\* signed and the triple that is passed.
ReplayInputs ==
    {x \in {[shape |-> y[1], signed |-> y[3], called |-> y[4],
             args |-> ReplayArgs(y[1], "v1", y[2], y[3], y[4])] :
                y \in ReplayShapes \X Wallets \X ReplayTriples \X ReplayTriples} :
        PrecedingAccepted(x.args.ixs)}

ReplayTimes == {61, 122, 183}

InitReplay ==
    /\ config = RaceAccounts.config
    /\ verifier_account = RaceAccounts.verifier_account
    /\ rate_limit = RaceAccounts.rate_limit
    /\ nullifier_account = RaceAccounts.nullifier_account
    /\ campaign = RaceAccounts.campaign
    /\ registration = RaceAccounts.registration
    /\ token = RaceAccounts.token
    /\ now = 61
    /\ last = [op |-> "init_nullifier", err |-> "Ok"]

NextReplay ==
    \/ ClockAdvance(ReplayTimes)
    \/ RecordAttestationTx({x.args : x \in ReplayInputs})

SpecReplay == InitReplay /\ [][NextReplay]_vars

(******************** from credential to registration **********************)

\* The accounts the credentials start from: the program configured by alice,
\* verifier v1 added and alice's rate-limit record created, no nullifier yet.
VerifiedStart ==
    init_rate_limit(
        add_verifier(initialize_config(NoState, "alice").s, "alice", "v1", 0).s,
        "alice", 0).s

InitVerified ==
    /\ config = VerifiedStart.config
    /\ verifier_account = VerifiedStart.verifier_account
    /\ rate_limit = VerifiedStart.rate_limit
    /\ nullifier_account = VerifiedStart.nullifier_account
    /\ campaign = VerifiedStart.campaign
    /\ registration = VerifiedStart.registration
    /\ token = VerifiedStart.token
    /\ now = 0
    /\ last = [op |-> "init_rate_limit", err |-> "Ok"]

VerifiedTimes == {0, 61, 122, 200}

\* The record_attestation calls made: correctly signed, with a valid or an
\* invalid proof type code.
VerifiedInputs ==
    AttestationInputs({"signed"}, {"v1"}, {"alice"}, Nullifiers, Hashes,
                      ProofTypeCodes)

NextVerified ==
    \/ ClockAdvance(VerifiedTimes)
    \/ InitNullifierTx(Nullifiers)
    \/ RecordAttestationTx(VerifiedInputs)
    \/ CreateAirdropCampaignTx({"alice"}, CampaignIds, RegisterParams)
    \/ RegisterForAirdropTx(CampaignIds, Nullifiers, AddressLens)

SpecVerified == InitVerified /\ [][NextVerified]_vars

(*********************** claims late in a campaign *************************)

\* From the funded campaign of DistributeStart, at 200: the admin pauses and
\* resumes the protocol, the creator closes and completes the campaign and
\* marks registrations as paid out of band, the clock passes the deadline, and
\* anyone claims.
InitPayout ==
    /\ config = DistributeStart.config
    /\ verifier_account = DistributeStart.verifier_account
    /\ rate_limit = DistributeStart.rate_limit
    /\ nullifier_account = DistributeStart.nullifier_account
    /\ campaign = DistributeStart.campaign
    /\ registration = DistributeStart.registration
    /\ token = DistributeStart.token
    /\ now = 200
    /\ last = [op |-> "fund_airdrop_campaign", err |-> "Ok"]

NextPayout ==
    \/ ClockAdvance(AirdropTimes)
    \/ PauseProtocolTx({"alice"})
    \/ UnpauseProtocolTx({"alice"})
    \/ CloseAirdropRegistrationTx(CampaignIds, {"alice"})
    \/ CompleteAirdropCampaignTx(CampaignIds, {"alice"})
    \/ MarkAirdropDistributedTx(CampaignIds, DistributeIdentities, {"alice"},
                                {"tx1"})
    \/ ClaimAirdropTx(CampaignIds, DistributeIdentities, Signers)

SpecPayout == InitPayout /\ [][NextPayout]_vars

(************************ the rate-limit check alone ***********************)

\* The configurations the check is run under: the limits initialize_config
\* and update_rate_limits can leave (max_proofs_per_day > 0,
\* cooldown_seconds >= 0).
CheckConfigs ==
    {[initialize_config(NoState, "alice").s.config["config"]
          EXCEPT !.max_proofs_per_day = m, !.cooldown_seconds = c] :
        m \in {1, 2}, c \in {0, 60}}

\* The wallet records the check is run on.
CheckRecords ==
    {[wallet |-> "alice", proofs_today |-> p, last_proof_at |-> l,
      day_start |-> d, total_proofs |-> p + x] :
        p \in {0, 1, 2}, l \in {0, 100}, d \in {0, 100}, x \in {0, 1}}

\* The values of now the check is called with: before and after the record's
\* last_proof_at, within and past the cooldown, within and past the window.
CheckTimes == {50, 100, 130, 160, 86400, 86500}

InitCheck ==
    /\ config \in {[x \in {"config"} |-> c] : c \in CheckConfigs}
    /\ rate_limit \in {[x \in {"alice"} |-> r] : r \in CheckRecords}
    /\ verifier_account = NoAccounts
    /\ nullifier_account = NoAccounts
    /\ campaign = NoAccounts
    /\ registration = NoAccounts
    /\ token = NoAccounts
    /\ now = 0
    /\ last = [op |-> "none", err |-> "Ok"]

\* One call of check_and_update_rate_limit(&mut rate_limit, &config, now):
\* the record is left as the function left it, whatever it returned.
RateLimitCheck(T) ==
    \E t \in T :
        LET r == check_and_update_rate_limit(rate_limit["alice"],
                                             config["config"], t)
        IN
        /\ now' = t
        /\ rate_limit' = [rate_limit EXCEPT !["alice"] = r.rl]
        /\ last' = [op |-> "check_and_update_rate_limit", err |-> r.err]
        /\ UNCHANGED <<config, verifier_account, nullifier_account, campaign,
                       registration, token>>

NextCheck == RateLimitCheck(CheckTimes)

SpecCheck == InitCheck /\ [][NextCheck]_vars

(********************* administration and verifiers ***********************)

AdminTimes == {61}

NextAdmin ==
    \/ ClockAdvance(AdminTimes)
    \/ InitializeConfigTx({"alice"})
    \/ PauseProtocolTx(Signers)
    \/ UnpauseProtocolTx(Signers)
    \/ UpdateRateLimitsTx(Signers, MaxPerDayArgs, CooldownArgs)
    \/ TransferAdminTx(Signers)
    \/ AddVerifierTx(Signers, VerifierKeys)
    \/ RemoveVerifierTx(Signers, VerifierKeys)

SpecAdmin == Init /\ [][NextAdmin]_vars

(******************************** claims ***********************************)

Accounts == <<config, verifier_account, rate_limit, nullifier_account,
              campaign, registration, token>>

Used(n) == n \in DOMAIN nullifier_account /\ nullifier_account[n].is_used

\* The accounts a record_attestation with arguments a leaves behind.
AfterAttestation(a) == Commit(St, record_attestation(St, a, now))

\* C1 (as stated): a record_attestation that names a nullifier whose record
\* is already used fails with NullifierAlreadyUsed, whatever else it names.
C1_ReuseAlwaysNullifierAlreadyUsed ==
    \A a \in SpecInputs :
        Used(a.nullifier) =>
            record_attestation(St, a, now).err = "NullifierAlreadyUsed"

C1_ReuseFails ==
    \A a \in SpecInputs :
        Used(a.nullifier) =>
            LET r == record_attestation(St, a, now) IN
            /\ r.err \in {"NullifierAlreadyUsed", "VerifierNotAuthorized"}
            /\ (/\ a.verifier \in DOMAIN verifier_account
                /\ verifier_account[a.verifier].is_active
                /\ a.recipient \in DOMAIN rate_limit)
               => r.err = "NullifierAlreadyUsed"
            /\ (~verifier_account[a.verifier].is_active)
               => r.err = "VerifierNotAuthorized"
            /\ AfterAttestation(a) = St

C1_UsedStaysUsed ==
    \A n \in Nullifiers : Used(n) => Used(n)'

\* C1 (amended): is_used of a nullifier record goes from false to true at most
\* once and never back; a record_attestation naming a used nullifier always
\* fails and leaves every account unchanged, with NullifierAlreadyUsed when the
\* verifier it names is active (also while the protocol is paused) and with
\* VerifierNotAuthorized when that verifier has been deactivated.
C1_NullifierUsedOnce == [](C1_ReuseFails) /\ [][C1_UsedStaysUsed]_vars

\* C1 witness: a reuse was attempted and refused with NullifierAlreadyUsed.
C1_Witness ==
    /\ last = [op |-> "record_attestation", err |-> "NullifierAlreadyUsed"]
    /\ \E n \in Nullifiers : Used(n)

\* C2 (as stated): proofs_today of every wallet stays strictly below the
\* current max_proofs_per_day.
C2_ProofsTodayBelowMax ==
    "config" \in DOMAIN config =>
        \A w \in DOMAIN rate_limit :
            rate_limit[w].proofs_today < config["config"].max_proofs_per_day

\* C2 (amended): every successful record_attestation leaves the wallet's
\* proofs_today between 1 and the max_proofs_per_day in force at that call,
\* both included; no other operation changes an existing rate-limit record.
C2_ProofsTodayAtMostMax ==
    [][\A w \in DOMAIN rate_limit :
          rate_limit'[w] # rate_limit[w] =>
              /\ last'.op = "record_attestation" /\ last'.err = "Ok"
              /\ rate_limit'[w].proofs_today >= 1
              /\ rate_limit'[w].proofs_today <= config["config"].max_proofs_per_day
              /\ config'["config"].max_proofs_per_day
                     = config["config"].max_proofs_per_day]_vars

\* C2 witness: an attestation has just filled the day's quota.
C2_Witness ==
    /\ last = [op |-> "record_attestation", err |-> "Ok"]
    /\ \E w \in DOMAIN rate_limit :
          rate_limit[w].proofs_today = config["config"].max_proofs_per_day

\* A record_attestation rate-limited on wallet w succeeds in this step.
Attested(w) ==
    /\ w \in DOMAIN rate_limit
    /\ rate_limit'[w].total_proofs # rate_limit[w].total_proofs

\* C3: when a record_attestation rate-limited on a wallet succeeds, the time
\* since the wallet's previous last_proof_at is at least the cooldown_seconds
\* in force; so, while the wallet is the only one with a rate-limit record,
\* the time since every earlier accepted attestation is at least that cooldown.
C3_CooldownBetweenAttestations ==
    [][\A w \in Wallets :
          Attested(w) =>
              /\ now - rate_limit[w].last_proof_at >= config["config"].cooldown_seconds
              /\ rate_limit'[w].last_proof_at = now
              /\ DOMAIN rate_limit = {w} =>
                    \A n \in Nullifiers :
                        Used(n) => now - nullifier_account[n].used_at
                                       >= config["config"].cooldown_seconds]_vars

\* C3 witness: a second attestation was accepted under a cooldown of 60.
C3_Witness ==
    /\ last = [op |-> "record_attestation", err |-> "Ok"]
    /\ config["config"].cooldown_seconds = 60
    /\ \E w \in DOMAIN rate_limit : rate_limit[w].total_proofs = 2

OtherwiseValid(a) ==
    /\ "config" \in DOMAIN config /\ ~config["config"].is_paused
    /\ a.verifier \in DOMAIN verifier_account
    /\ verifier_account[a.verifier].is_active
    /\ a.nullifier \in DOMAIN nullifier_account /\ ~Used(a.nullifier)
    /\ a.proof_type_value \in {1, 2}
    /\ a.signature = Sign(a.verifier,
           build_attestation_message(a.proof_type_value, Bytes32(a.nullifier),
                                     Bytes32(a.attestation_hash)))
    /\ a.current_index = 1
    /\ a.ixs[1].program_id = "Ed25519SigVerify"
    /\ a.ixs[1].data = Ed25519Data(THIS_IX, Bytes32(a.verifier), a.signature,
           build_attestation_message(a.proof_type_value, Bytes32(a.nullifier),
                                     Bytes32(a.attestation_hash)))

ScenarioConfig ==
    /\ "config" \in DOMAIN config
    /\ config["config"].max_proofs_per_day = 10
    /\ config["config"].cooldown_seconds = 60

\* C10 (as stated): with max_proofs_per_day = 10 and cooldown_seconds = 60 and
\* the wallet's record as init_rate_limit left it at t = 0, an otherwise valid
\* record_attestation at t = 0 succeeds; after it (proofs_today = 1,
\* last_proof_at = 0) one at t = 30 fails with RateLimitCooldown and one at
\* t = 61 succeeds and leaves proofs_today = 2.
C10_ScenarioA ==
    \A a \in SpecInputs :
        (ScenarioConfig /\ OtherwiseValid(a) /\ a.recipient \in DOMAIN rate_limit) =>
            LET rl == rate_limit[a.recipient]
                r == record_attestation(St, a, now)
            IN
            /\ (rl = [wallet |-> a.recipient, proofs_today |-> 0,
                      last_proof_at |-> 0, day_start |-> 0, total_proofs |-> 0]
                /\ now = 0) => r.err = "Ok"
            /\ (rl.proofs_today = 1 /\ rl.last_proof_at = 0 /\ now = 30)
                   => r.err = "RateLimitCooldown"
            /\ (rl.proofs_today = 1 /\ rl.last_proof_at = 0 /\ now = 61)
                   => (r.err = "Ok" /\ r.s.rate_limit[a.recipient].proofs_today = 2)

\* The message record_attestation rebuilds from the arguments a.
MessageOf(a) ==
    build_attestation_message(a.proof_type_value, Bytes32(a.nullifier),
                              Bytes32(a.attestation_hash))

\* The instruction right before the call is an Ed25519 proof, verified by the
\* host, of the verifier's signature a.signature over the rebuilt message.
MatchingProof(a) ==
    /\ a.current_index > 0
    /\ a.ixs[a.current_index].program_id = "Ed25519SigVerify"
    /\ Len(a.ixs[a.current_index].data) >= 2
    /\ a.ixs[a.current_index].data[1] >= 1
    /\ LET e == Ed25519Entry(a.ixs, a.current_index - 1, 0) IN
       /\ e.ok
       /\ e.msg = MessageOf(a)
       /\ e.pubkey = Bytes32(verifier_account[a.verifier].verifier)
       /\ e.sig = a.signature

\* The errors record_attestation returns before it looks at the signature.
BeforeSignatureCheck ==
    {"AccountNotInitialized", "VerifierNotAuthorized", "NullifierAlreadyUsed",
     "ProtocolPaused", "RateLimitCooldown", "DailyRateLimitExceeded", "Overflow"}

\* C4 (as stated): a record_attestation succeeds only if the instruction right
\* before it is an Ed25519 proof whose signed message is the rebuilt message,
\* whose public key is the verifier's and whose signature is the one passed;
\* a call that reaches the signature check without such a proof fails with
\* InvalidSignature and leaves the nullifier unused.
C4_AcceptedOnlyWithMatchingProof ==
    \A a \in SigInputs :
        LET r == record_attestation(St, a, now) IN
        /\ r.err = "Ok" => MatchingProof(a)
        /\ (r.err \notin BeforeSignatureCheck
            /\ a.verifier \in DOMAIN verifier_account
            /\ ~MatchingProof(a))
           => /\ r.err = "InvalidSignature"
              /\ ~AfterAttestation(a).nullifier_account[a.nullifier].is_used

\* The registration with key k is claimed in this step.
ClaimedNow(k) ==
    /\ k \in DOMAIN registration
    /\ ~registration[k].is_claimed
    /\ registration'[k].is_claimed

\* Base amount plus the bonus of the registration's proof type, unbounded.
TierAmount(r, c) ==
    IF r.proof_type = "DeveloperReputation" THEN c.base_amount + c.dev_bonus
    ELSE IF r.proof_type = "WhaleTrading" THEN c.base_amount + c.whale_bonus
    ELSE c.base_amount

BalanceOf(tok, owner) == IF owner \in DOMAIN tok THEN tok[owner] ELSE 0

\* C5: a successful claim_airdrop records as claimed_amount, and moves from
\* the vault, base_amount + dev_bonus for a DeveloperReputation registration,
\* base_amount + whale_bonus for a WhaleTrading one and base_amount for any
\* other; the recorded amount never changes afterwards.
C5_ClaimAmountByProofType ==
    [][\A k \in DOMAIN registration :
          /\ ClaimedNow(k) =>
                /\ last'.op = "claim_airdrop" /\ last'.err = "Ok"
                /\ registration'[k].claimed_amount
                       = TierAmount(registration[k], campaign[k[1]])
                /\ token[k[1]] - token'[k[1]]
                       = TierAmount(registration[k], campaign[k[1]])
                /\ registration'[k].proof_type = registration[k].proof_type
          /\ registration[k].is_claimed =>
                registration'[k].claimed_amount = registration[k].claimed_amount]_vars

\* C5 witness: with base 100, developer bonus 50 and whale bonus 200, a
\* DeveloperReputation registration has been paid 150.
C5_Witness ==
    /\ last = [op |-> "claim_airdrop", err |-> "Ok"]
    /\ \E k \in DOMAIN registration :
          /\ registration[k].proof_type = "DeveloperReputation"
          /\ registration[k].is_claimed
          /\ registration[k].claimed_amount = 150
          /\ campaign[k[1]].base_amount = 100
          /\ campaign[k[1]].dev_bonus = 50
          /\ campaign[k[1]].whale_bonus = 200

ClaimedOf(c) ==
    {k \in DOMAIN registration : k[1] = c /\ registration[k].is_claimed}

C6_TotalClaimedCounts ==
    \A c \in DOMAIN campaign :
        campaign[c].total_claimed = Cardinality(ClaimedOf(c))

C6_LaterClaimsFail ==
    \A c \in CampaignIds, id \in Identities, claimer \in Signers, frozen \in BOOLEAN :
        (<<c, id>> \in DOMAIN registration /\ registration[<<c, id>>].is_claimed)
            => claim_airdrop(St, c, id, claimer, frozen, now).err = "AlreadyClaimed"

C6_ClaimedStaysClaimed ==
    /\ \A k \in DOMAIN registration :
          registration[k].is_claimed => registration'[k].is_claimed
    /\ \A c \in DOMAIN campaign :
          (c \in DOMAIN token /\ token'[c] < token[c]) =>
              /\ last'.op = "claim_airdrop" /\ last'.err = "Ok"
              /\ \E k \in DOMAIN registration :
                    /\ k[1] = c
                    /\ ClaimedNow(k)
                    /\ token[c] - token'[c] = registration'[k].claimed_amount
                    /\ \A k2 \in DOMAIN registration : ClaimedNow(k2) => k2 = k

\* C6: is_claimed of a registration goes from false to true at its first
\* successful claim_airdrop and never back; every later claim_airdrop on it
\* fails with AlreadyClaimed; the vault pays out only in a step that claims
\* exactly one unclaimed registration; and the campaign's total_claimed is
\* the number of its registrations with is_claimed set.
C6_ClaimedOnce ==
    [](C6_TotalClaimedCounts /\ C6_LaterClaimsFail) /\ [][C6_ClaimedStaysClaimed]_vars

\* C6 witness: a second claim on a claimed registration was refused.
C6_Witness ==
    /\ last = [op |-> "claim_airdrop", err |-> "AlreadyClaimed"]
    /\ \E c \in DOMAIN campaign : campaign[c].total_claimed >= 1

\* A claim_airdrop on an existing, unclaimed registration of a campaign whose
\* vault account exists, for an amount within the u64 range.
Claimable(c, id) ==
    /\ c \in DOMAIN campaign
    /\ c \in DOMAIN token
    /\ <<c, id>> \in DOMAIN registration
    /\ ~registration[<<c, id>>].is_claimed
    /\ TierAmount(registration[<<c, id>>], campaign[c]) <= U64_MAX

C8_ClaimAgainstVault ==
    \A c \in CampaignIds, id \in Identities, claimer \in Signers, frozen \in BOOLEAN :
        Claimable(c, id) =>
            LET amount == TierAmount(registration[<<c, id>>], campaign[c])
                r == claim_airdrop(St, c, id, claimer, frozen, now)
                post == Commit(St, r)
            IN
            /\ token[c] < amount =>
                  /\ r.err = "InsufficientFunds"
                  /\ post = St
            /\ (token[c] >= amount /\ ~frozen) =>
                  /\ r.err = "Ok"
                  /\ post.registration[<<c, id>>].is_claimed
                  /\ post.token[c] = token[c] - amount

C8_FundRaisesVault ==
    (last'.op = "fund_airdrop_campaign" /\ last'.err = "Ok") =>
        /\ registration' = registration
        /\ \A c \in DOMAIN campaign :
              c \in DOMAIN token' => token'[c] >= BalanceOf(token, c)

\* C8: a claim_airdrop on an unclaimed registration whose claim amount exceeds
\* the vault's ledger balance fails with InsufficientFunds and changes
\* nothing; funding leaves registrations alone and never lowers the vault;
\* and once the vault holds at least the claim amount, the same claim (on a
\* ledger that accepts the transfer) succeeds and debits the vault by it.
C8_InsufficientThenFunded ==
    [](C8_ClaimAgainstVault) /\ [][C8_FundRaisesVault]_vars

\* C8 witness: the vault holds 100, a claim of 150 has just failed with
\* InsufficientFunds, and after funding 100 more the same claim succeeds and
\* leaves 50 in the vault.
C8_Witness ==
    /\ last = [op |-> "claim_airdrop", err |-> "InsufficientFunds"]
    /\ \E c \in DOMAIN campaign, id \in Identities, claimer \in Signers :
          /\ Claimable(c, id)
          /\ token[c] = 100
          /\ TierAmount(registration[<<c, id>>], campaign[c]) = 150
          /\ claim_airdrop(St, c, id, claimer, FALSE, now).err = "InsufficientFunds"
          /\ LET funded == Commit(St, fund_airdrop_campaign(St, c,
                                          campaign[c].creator, 100, FALSE))
                 r == claim_airdrop(funded, c, id, claimer, FALSE, now)
             IN /\ funded.token[c] = 200
                /\ r.err = "Ok"
                /\ r.s.token[c] = 50

\* C9: a claim_airdrop that fails, for whatever reason, leaves the ledger,
\* the registration and the campaign as they were; one that succeeds debits
\* the vault and credits the claimer's token account by exactly the
\* claimed_amount it records, and moves nothing else.
C9_ClaimAllOrNothing ==
    [][/\ (last'.op = "claim_airdrop" /\ last'.err # "Ok") => Accounts' = Accounts
       /\ \A k \in DOMAIN registration :
             ClaimedNow(k) =>
                 LET amount == registration'[k].claimed_amount IN
                 /\ token'[k[1]] = token[k[1]] - amount
                 /\ \E claimer \in Signers :
                       /\ token'[claimer] = BalanceOf(token, claimer) + amount
                       /\ \A x \in DOMAIN token' \ {claimer, k[1]} :
                             x \in DOMAIN token /\ token'[x] = token[x]
                 /\ campaign'[k[1]].total_claimed = campaign[k[1]].total_claimed + 1
                 /\ registration' = [registration EXCEPT ![k] = registration'[k]]]_vars

\* C9 witness: a claim failed at the asset transfer, after validation had
\* created the claimer's token account.
C9_Witness ==
    /\ last = [op |-> "claim_airdrop", err |-> "TokenAccountFrozen"]
    /\ \E c \in DOMAIN campaign, id \in Identities, claimer \in Signers :
          /\ claimer \notin DOMAIN token
          /\ claim_airdrop(St, c, id, claimer, TRUE, now).err = "TokenAccountFrozen"
          /\ claimer \in DOMAIN claim_airdrop(St, c, id, claimer, TRUE, now).s.token

C11_StatusCalls ==
    \A c \in DOMAIN campaign, a \in Signers :
        /\ close_airdrop_registration(St, c, a).err =
              IF a # campaign[c].creator THEN "Unauthorized"
              ELSE IF campaign[c].status # "Open" THEN "CampaignNotOpen"
              ELSE "Ok"
        /\ complete_airdrop_campaign(St, c, a, now).err =
              IF a # campaign[c].creator THEN "Unauthorized"
              ELSE IF campaign[c].status # "RegistrationClosed" THEN "CampaignNotClosed"
              ELSE "Ok"

C11_StatusStep ==
    \A c \in DOMAIN campaign :
        campaign'[c].status # campaign[c].status =>
            \/ /\ campaign[c].status = "Open"
               /\ campaign'[c].status = "RegistrationClosed"
               /\ last' = [op |-> "close_airdrop_registration", err |-> "Ok"]
            \/ /\ campaign[c].status = "RegistrationClosed"
               /\ campaign'[c].status = "Completed"
               /\ last' = [op |-> "complete_airdrop_campaign", err |-> "Ok"]

\* C11: a campaign's status changes only from Open to RegistrationClosed, by a
\* successful close_airdrop_registration, and from RegistrationClosed to
\* Completed, by a successful complete_airdrop_campaign; close fails with
\* CampaignNotOpen in any other status than Open, complete with
\* CampaignNotClosed in any other than RegistrationClosed, and both fail with
\* Unauthorized for a caller who is not the campaign's creator.
C11_StatusForwardOnly == [](C11_StatusCalls) /\ [][C11_StatusStep]_vars

\* C11 witness: a campaign went through to Completed and a further
\* complete_airdrop_campaign by its creator was refused.
C11_Witness ==
    /\ last = [op |-> "complete_airdrop_campaign", err |-> "CampaignNotClosed"]
    /\ \E c \in DOMAIN campaign : campaign[c].status = "Completed"

Configured == "config" \in DOMAIN config

C12_PauseCalls ==
    Configured =>
        \A a \in Signers :
            LET p == pause_protocol(St, a)
                u == unpause_protocol(St, a)
            IN
            /\ (a = config["config"].admin /\ config["config"].is_paused) =>
                  /\ p.err = "AlreadyPaused" /\ Commit(St, p) = St
                  /\ u.err = "Ok" /\ ~u.s.config["config"].is_paused
            /\ (a = config["config"].admin /\ ~config["config"].is_paused) =>
                  /\ u.err = "NotPaused" /\ Commit(St, u) = St
                  /\ p.err = "Ok" /\ p.s.config["config"].is_paused
            /\ p.err # "Ok" => Commit(St, p) = St
            /\ u.err # "Ok" => Commit(St, u) = St

C12_PauseStep ==
    /\ (~Configured /\ Configured') =>
          /\ last' = [op |-> "initialize_config", err |-> "Ok"]
          /\ ~config'["config"].is_paused
    /\ (Configured /\ config'["config"].is_paused # config["config"].is_paused) =>
          IF config["config"].is_paused
              THEN last' = [op |-> "unpause_protocol", err |-> "Ok"]
              ELSE last' = [op |-> "pause_protocol", err |-> "Ok"]
    /\ last' \in {[op |-> "pause_protocol", err |-> "AlreadyPaused"],
                  [op |-> "unpause_protocol", err |-> "NotPaused"]}
          => config' = config

\* C12: is_paused is false when initialize_config creates the config and
\* changes only from false to true in a successful pause_protocol and from
\* true to false in a successful unpause_protocol; by the admin,
\* pause_protocol on a paused protocol fails with AlreadyPaused and
\* unpause_protocol on an unpaused one with NotPaused, and a failed call
\* leaves the config unchanged.
C12_PauseFlag == [](C12_PauseCalls) /\ [][C12_PauseStep]_vars

\* C12 witness: a second pause_protocol was refused with AlreadyPaused.
C12_Witness ==
    /\ last = [op |-> "pause_protocol", err |-> "AlreadyPaused"]
    /\ config["config"].is_paused

\* C13: pause_authority equals admin in every state reached through
\* initialize_config and transfer_admin, and pause_protocol and
\* unpause_protocol succeed only for the caller who is the pause_authority;
\* for any other caller they fail with Unauthorized.
C13_OnlyPauseAuthority ==
    Configured =>
        /\ config["config"].pause_authority = config["config"].admin
        /\ \A a \in Signers :
              /\ pause_protocol(St, a).err = "Ok" => a = config["config"].pause_authority
              /\ unpause_protocol(St, a).err = "Ok" => a = config["config"].pause_authority
              /\ a # config["config"].pause_authority =>
                    /\ pause_protocol(St, a).err = "Unauthorized"
                    /\ unpause_protocol(St, a).err = "Unauthorized"

\* C13 witness: after transfer_admin handed the protocol from alice to bob,
\* bob has paused it.
C13_Witness ==
    /\ last = [op |-> "pause_protocol", err |-> "Ok"]
    /\ config["config"].pause_authority = "bob"
    /\ pause_protocol(St, "alice").err = "Unauthorized"

Paused == Configured /\ config["config"].is_paused

\* The accounts a record_attestation with arguments a names all exist.
AttestationAccountsExist(a) ==
    /\ a.verifier \in DOMAIN verifier_account
    /\ a.nullifier \in DOMAIN nullifier_account
    /\ a.recipient \in DOMAIN rate_limit

C14_PausedCalls ==
    Paused =>
        /\ \A v \in VerifierKeys, s \in Signers :
              LET ad == add_verifier(St, s, v, now)
                  rm == remove_verifier(St, s, v)
              IN
              /\ ad.err # "Ok" /\ Commit(St, ad) = St
              /\ rm.err # "Ok" /\ Commit(St, rm) = St
              /\ s = config["config"].admin =>
                    IF v \in DOMAIN verifier_account
                    THEN rm.err = "ProtocolPaused"
                    ELSE ad.err = "ProtocolPaused"
        /\ \A a \in SpecInputs :
              LET r == record_attestation(St, a, now) IN
              /\ r.err # "Ok" /\ Commit(St, r) = St
              /\ AttestationAccountsExist(a) =>
                    r.err = IF ~verifier_account[a.verifier].is_active
                                THEN "VerifierNotAuthorized"
                            ELSE IF nullifier_account[a.nullifier].is_used
                                THEN "NullifierAlreadyUsed"
                            ELSE "ProtocolPaused"

C14_AfterUnpause ==
    (Configured /\ ~config["config"].is_paused) =>
        \A v \in VerifierKeys :
            v \notin DOMAIN verifier_account =>
                LET ad == add_verifier(St, config["config"].admin, v, now) IN
                /\ ad.err = "Ok"
                /\ ad.s.verifier_account[v].is_active

C15_RateLimitParameters ==
    Configured =>
        /\ config["config"].max_proofs_per_day > 0
        /\ config["config"].cooldown_seconds >= 0
        /\ \A a \in Signers, m \in MaxPerDayArgs, c \in CooldownArgs :
              LET r == update_rate_limits(St, a, m, c) IN
              /\ r.err = IF a # config["config"].admin THEN "Unauthorized"
                         ELSE IF m = 0 \/ c < 0 THEN "InvalidRateLimit"
                         ELSE "Ok"
              /\ r.err # "Ok" => Commit(St, r) = St
              /\ r.err = "Ok" =>
                    /\ Commit(St, r).config["config"].max_proofs_per_day = m
                    /\ Commit(St, r).config["config"].cooldown_seconds = c

\* C15 witness: after an update that set max_proofs_per_day to 2, an
\* update_rate_limits by the admin was refused with InvalidRateLimit.
C15_Witness ==
    /\ last = [op |-> "update_rate_limits", err |-> "InvalidRateLimit"]
    /\ config["config"].max_proofs_per_day = 2

\* The codes the admin-gated operations return to caller a on accounts s, at
\* time t: for add_verifier on a verifier id without a record, for
\* remove_verifier on one with a record.
AdminGatedCodes(s, a, t) ==
    {pause_protocol(s, a).err, unpause_protocol(s, a).err}
    \cup {update_rate_limits(s, a, m, c).err : m \in MaxPerDayArgs, c \in CooldownArgs}
    \cup {transfer_admin(s, a, n).err : n \in Signers}
    \cup {add_verifier(s, a, v, t).err : v \in VerifierKeys \ DOMAIN s.verifier_account}
    \cup {remove_verifier(s, a, v).err : v \in DOMAIN s.verifier_account}

\* Caller a is refused by every admin-gated operation, also by add_verifier on
\* a verifier id that has a record.
RefusedEverywhere(s, a, t) ==
    /\ AdminGatedCodes(s, a, t) = {"Unauthorized"}
    /\ \A v \in DOMAIN s.verifier_account : add_verifier(s, a, v, t).err # "Ok"

\* C16: transfer_admin(new_admin) succeeds exactly for the current admin
\* (Unauthorized for anyone else) and sets admin and pause_authority to
\* new_admin, changing nothing else; on the accounts it leaves, and in every
\* state, pause_protocol, unpause_protocol, update_rate_limits,
\* transfer_admin, add_verifier and remove_verifier return Unauthorized to
\* every caller other than the admin and never return it to the admin.
C16_TransferAdmin ==
    Configured =>
        /\ \A a \in Signers :
              IF a = config["config"].admin
              THEN "Unauthorized" \notin AdminGatedCodes(St, a, now)
              ELSE RefusedEverywhere(St, a, now)
        /\ \A a \in Signers, n \in Signers :
              LET r == transfer_admin(St, a, n) IN
              /\ r.err = IF a = config["config"].admin THEN "Ok" ELSE "Unauthorized"
              /\ r.err # "Ok" => Commit(St, r) = St
              /\ r.err = "Ok" =>
                    /\ r.s = [St EXCEPT !.config["config"].admin = n,
                                        !.config["config"].pause_authority = n]
                    /\ "Unauthorized" \notin AdminGatedCodes(r.s, n, now)
                    /\ \A old \in Signers \ {n} : RefusedEverywhere(r.s, old, now)

\* C16 witness: alice handed the protocol to bob and her next transfer_admin
\* was refused.
C16_Witness ==
    /\ last = [op |-> "transfer_admin", err |-> "Unauthorized"]
    /\ config["config"].admin = "bob"
    /\ config["config"].pause_authority = "bob"

\* C17 (as stated): while the protocol is not paused, add_verifier by the
\* admin succeeds for a verifier id without a record and for one whose record
\* was deactivated by remove_verifier, leaves the record with is_active = true
\* and attestation_count = 0, and increments verifier_count by one (failing
\* with Overflow at the top of the u32 range).
C17_AddVerifierCreatesOrRecreates ==
    (Configured /\ ~config["config"].is_paused) =>
        \A v \in VerifierKeys :
            (v \notin DOMAIN verifier_account \/ ~verifier_account[v].is_active) =>
                LET r == add_verifier(St, config["config"].admin, v, now) IN
                IF config["config"].verifier_count = U32_MAX
                THEN r.err = "Overflow"
                ELSE /\ r.err = "Ok"
                     /\ r.s.verifier_account[v].is_active
                     /\ r.s.verifier_account[v].attestation_count = 0
                     /\ r.s.config["config"].verifier_count
                            = config["config"].verifier_count + 1

C18_RemoveCalls ==
    (Configured /\ ~config["config"].is_paused) =>
        \A v \in DOMAIN verifier_account :
            LET r == remove_verifier(St, config["config"].admin, v)
                n == config["config"].verifier_count
            IN
            /\ r.err = "Ok"
            /\ r.s = [St EXCEPT !.verifier_account[v].is_active = FALSE,
                                !.config["config"].verifier_count =
                                    IF n = 0 THEN 0 ELSE n - 1]

C18_RecordsKept ==
    \A v \in DOMAIN verifier_account :
        /\ v \in DOMAIN verifier_account'
        /\ verifier_account'[v].verifier = verifier_account[v].verifier
        /\ verifier_account'[v].added_at = verifier_account[v].added_at
        /\ last'.op = "remove_verifier" =>
              verifier_account'[v].attestation_count
                  = verifier_account[v].attestation_count

\* C18: remove_verifier by the admin while the protocol is not paused succeeds,
\* sets the record's is_active to false and changes nothing else of it
\* (verifier, added_at and attestation_count stay), lowers verifier_count by
\* one, or leaves it at zero when it is zero, and changes no other account;
\* no operation ever deletes a verifier record or changes its verifier id or
\* added_at.
C18_SoftRevoke == [](C18_RemoveCalls) /\ [][C18_RecordsKept]_vars

\* C18 witness: a verifier with an attestation on its count has been
\* removed, verifier_count is zero, and a further remove_verifier succeeds
\* and leaves it zero.
C18_Witness ==
    /\ last = [op |-> "remove_verifier", err |-> "Ok"]
    /\ config["config"].verifier_count = 0
    /\ \E v \in DOMAIN verifier_account :
          /\ ~verifier_account[v].is_active
          /\ verifier_account[v].attestation_count >= 1
          /\ LET r == remove_verifier(St, config["config"].admin, v) IN
             /\ r.err = "Ok"
             /\ r.s.config["config"].verifier_count = 0
             /\ r.s.verifier_account[v] = verifier_account[v]

ActiveVerifiers == {v \in DOMAIN verifier_account : verifier_account[v].is_active}

\* C19 (as stated): verifier_count equals the number of verifier records with
\* is_active = true in every reachable state.
C19_VerifierCountIsActiveCount ==
    Configured => config["config"].verifier_count = Cardinality(ActiveVerifiers)

Inactive(v) == v \in DOMAIN verifier_account /\ ~verifier_account[v].is_active

C20_InactiveCalls ==
    \A a \in SpecInputs :
        Inactive(a.verifier) =>
            LET r == record_attestation(St, a, now) IN
            /\ r.err # "Ok"
            /\ Commit(St, r) = St
            /\ AttestationAccountsExist(a) => r.err = "VerifierNotAuthorized"

C20_CountStep ==
    \A v \in DOMAIN verifier_account :
        /\ verifier_account'[v].attestation_count >= verifier_account[v].attestation_count
        /\ Inactive(v) =>
              verifier_account'[v].attestation_count
                  = verifier_account[v].attestation_count
        /\ verifier_account'[v].attestation_count # verifier_account[v].attestation_count
              => /\ last' = [op |-> "record_attestation", err |-> "Ok"]
                 /\ verifier_account'[v].attestation_count
                        = verifier_account[v].attestation_count + 1

\* C20: a record_attestation naming a verifier whose record has is_active =
\* false never succeeds and changes nothing; when the accounts it names exist
\* it fails with VerifierNotAuthorized, also with a valid signature and an
\* unused nullifier; a verifier's attestation_count never changes while the
\* verifier is inactive, never decreases, and grows only by one in a
\* successful record_attestation.
C20_InactiveVerifierRefused == [](C20_InactiveCalls) /\ [][C20_CountStep]_vars

\* C20 witness: a verifier that had an attestation accepted was removed, and
\* a correctly signed attestation of an unused nullifier naming it has just
\* been refused with VerifierNotAuthorized.
C20_Witness ==
    /\ last = [op |-> "record_attestation", err |-> "VerifierNotAuthorized"]
    /\ ~config["config"].is_paused
    /\ \E a \in SpecInputs :
          /\ Inactive(a.verifier)
          /\ verifier_account[a.verifier].attestation_count >= 1
          /\ AttestationAccountsExist(a)
          /\ ~Used(a.nullifier)
          /\ a.proof_type_value \in {1, 2}
          /\ a.signature = Sign(a.verifier, MessageOf(a))
          /\ MatchingProof(a)
          /\ record_attestation(St, a, now).err = "VerifierNotAuthorized"

C21_NullifierCalls ==
    /\ \A a \in SpecInputs :
          a.nullifier \notin DOMAIN nullifier_account =>
              LET r == record_attestation(St, a, now) IN
              /\ r.err # "Ok"
              /\ Commit(St, r) = St
    /\ \A n \in Nullifiers :
          LET r == init_nullifier(St, n) IN
          IF n \in DOMAIN nullifier_account
          THEN r.err # "Ok" /\ Commit(St, r) = St
          ELSE /\ r.err = "Ok"
               /\ ~r.s.nullifier_account[n].is_used
               /\ r.s.nullifier_account[n].proof_type = "Unset"

C21_NullifierStep ==
    \A n \in Nullifiers :
        /\ (~Used(n) /\ Used(n)') =>
              /\ n \in DOMAIN nullifier_account
              /\ last' = [op |-> "record_attestation", err |-> "Ok"]
        /\ (n \notin DOMAIN nullifier_account /\ n \in DOMAIN nullifier_account') =>
              /\ last' = [op |-> "init_nullifier", err |-> "Ok"]
              /\ ~nullifier_account'[n].is_used
        /\ last'.op = "init_nullifier" /\ n \in DOMAIN nullifier_account
              => nullifier_account'[n] = nullifier_account[n]

\* C21: a nullifier is consumed only in a record_attestation on a record that
\* an earlier init_nullifier created: record_attestation on a value without a
\* record fails and changes nothing, init_nullifier on a value without a
\* record creates it with is_used = false and proof_type = Unset, and
\* init_nullifier on a value that has a record, used or not, fails and leaves
\* is_used, used_at and proof_type as they were.
C21_InitBeforeConsume == [](C21_NullifierCalls) /\ [][C21_NullifierStep]_vars

\* C21 witness: init_nullifier on a nullifier already consumed was refused.
C21_Witness ==
    /\ last = [op |-> "init_nullifier", err |-> "AccountAlreadyInUse"]
    /\ \E n \in Nullifiers :
          /\ Used(n)
          /\ init_nullifier(St, n).err = "AccountAlreadyInUse"

\* The conditions under which a registration is accepted.
CampaignOpen(c) == campaign[c].status = "Open"
BeforeDeadline(c) == now < campaign[c].registration_deadline
AddressOk(len) == len >= 32 /\ len <= 44

\* The error of a refused registration: the first failing condition in the
\* order status, credential, deadline, address.
RegistrationError(open, used, early, addr) ==
    IF ~open THEN "CampaignNotOpen"
    ELSE IF ~used THEN "NullifierNotVerified"
    ELSE IF ~early THEN "RegistrationClosed"
    ELSE IF ~addr THEN "InvalidShadowWireAddress"
    ELSE "Ok"

\* C22: for a campaign that exists and an identity not yet registered in it,
\* register_for_airdrop (for a nullifier that has a record) and
\* register_for_airdrop_open succeed exactly when the campaign is Open,
\* now < registration_deadline, the address length is within 32..44 and, on
\* the verified path, the nullifier is used; they then create the record.
\* Otherwise they fail with CampaignNotOpen, NullifierNotVerified,
\* RegistrationClosed or InvalidShadowWireAddress (the first condition that
\* fails, in this order), creating no record and changing no counter.
C22_RegistrationGuards ==
    \A c \in DOMAIN campaign, len \in RegisterLens :
        /\ \A n \in DOMAIN nullifier_account :
              <<c, n>> \notin DOMAIN registration =>
                  LET r == register_for_airdrop(St, c, n, len, now) IN
                  /\ r.err = RegistrationError(CampaignOpen(c), Used(n),
                                               BeforeDeadline(c), AddressOk(len))
                  /\ r.err = "Ok" => <<c, n>> \in DOMAIN r.s.registration
                  /\ r.err # "Ok" => Commit(St, r) = St
        /\ \A p \in Signers :
              <<c, p>> \notin DOMAIN registration =>
                  LET r == register_for_airdrop_open(St, c, p, len, now) IN
                  /\ r.err = RegistrationError(CampaignOpen(c), TRUE,
                                               BeforeDeadline(c), AddressOk(len))
                  /\ r.err = "Ok" => <<c, p>> \in DOMAIN r.s.registration
                  /\ r.err # "Ok" => Commit(St, r) = St

\* C22: on every step a registration record appears only in a successful
\* register call made while the conditions held.
C22_RegistrationStep ==
    \A k \in DOMAIN registration' :
        k \notin DOMAIN registration =>
            /\ last'.err = "Ok"
            /\ last'.op \in {"register_for_airdrop", "register_for_airdrop_open"}
            /\ CampaignOpen(k[1]) /\ BeforeDeadline(k[1])
            /\ AddressOk(registration'[k].shadow_wire_address_len)
            /\ last'.op = "register_for_airdrop" => Used(k[2])

C22_RegistrationOnlyWhenAllowed ==
    [](C22_RegistrationGuards) /\ [][C22_RegistrationStep]_vars

\* Every refusal has happened by now: this one is the unused credential, in a
\* state where a registration at the deadline is refused too.
C22_Witness ==
    /\ last = [op |-> "register_for_airdrop", err |-> "NullifierNotVerified"]
    /\ \E c \in DOMAIN campaign :
          /\ CampaignOpen(c) /\ ~BeforeDeadline(c)
          /\ <<c, "n1">> \in DOMAIN registration
          /\ <<c, "bob">> \notin DOMAIN registration
          /\ register_for_airdrop_open(St, c, "bob", 44, now).err = "RegistrationClosed"

\* The number of a campaign's registration records with a given proof type.
RegistrationsOf(c, pt) ==
    Cardinality({k \in DOMAIN registration :
                    k[1] = c /\ registration[k].proof_type = pt})

\* C23: in every reachable state each campaign's dev_registrations,
\* whale_registrations and open_registrations are the numbers of its
\* registration records with proof type DeveloperReputation, WhaleTrading and
\* Unset, total_registrations is their sum, and a record made by
\* register_for_airdrop carries the proof type of its nullifier record while
\* one made by register_for_airdrop_open carries Unset.
C23_CountersMatchRecords ==
    /\ \A c \in DOMAIN campaign :
          /\ campaign[c].dev_registrations =
                 RegistrationsOf(c, "DeveloperReputation")
          /\ campaign[c].whale_registrations = RegistrationsOf(c, "WhaleTrading")
          /\ campaign[c].open_registrations = RegistrationsOf(c, "Unset")
          /\ campaign[c].total_registrations =
                 RegistrationsOf(c, "DeveloperReputation")
                 + RegistrationsOf(c, "WhaleTrading") + RegistrationsOf(c, "Unset")
    /\ \A k \in DOMAIN registration :
          /\ k[1] \in DOMAIN campaign
          /\ IF k[2] \in DOMAIN nullifier_account
             THEN registration[k].proof_type = nullifier_account[k[2]].proof_type
             ELSE registration[k].proof_type = "Unset"

\* All three buckets are in use.
C23_Witness ==
    \E c \in DOMAIN campaign :
        /\ campaign[c].dev_registrations = 1
        /\ campaign[c].whale_registrations = 1
        /\ campaign[c].open_registrations = 1
        /\ campaign[c].total_registrations = 3

\* C24: registration records are keyed by campaign and identity, and in every
\* reachable state a register_for_airdrop with the nullifier of an existing
\* registration, or a register_for_airdrop_open by the wallet of one, in the
\* same campaign fails (the account is already in use) and leaves every
\* registration, claim fields included, and every campaign counter unchanged.
C24_OneRegistrationPerIdentity ==
    \A k \in DOMAIN registration :
        /\ registration[k].campaign = k[1] /\ registration[k].nullifier = k[2]
        /\ \A len \in RegisterLens :
              /\ k[2] \in Nullifiers =>
                    LET r == register_for_airdrop(St, k[1], k[2], len, now) IN
                    /\ r.err = "AccountAlreadyInUse"
                    /\ Commit(St, r) = St
              /\ k[2] \in Signers =>
                    LET r == register_for_airdrop_open(St, k[1], k[2], len, now) IN
                    /\ r.err = "AccountAlreadyInUse"
                    /\ Commit(St, r) = St

\* A second registration was just refused for an identity that has claimed,
\* while the campaign still takes registrations.
C24_Witness ==
    /\ last = [op |-> "register_for_airdrop", err |-> "AccountAlreadyInUse"]
    /\ \E k \in DOMAIN registration :
          /\ k[2] \in Nullifiers
          /\ registration[k].is_claimed /\ registration[k].claimed_amount > 0
          /\ campaign[k[1]].status = "Open"
          /\ now < campaign[k[1]].registration_deadline

\* Amounts a funding call is asked about: zero, the amount funded, and the
\* top of the u64 range.
C25_Amounts == FundAmounts \cup {U64_MAX}

\* C25: in every reachable state, fund_airdrop_campaign succeeds only for the
\* campaign's creator, with amount > 0 and while the campaign is Open or
\* RegistrationClosed; the creator's call fails with InvalidAmount for amount
\* 0 and with CampaignNotOpen once the campaign is Completed. On success the
\* creator's ledger balance is lower by amount, the vault's higher by amount
\* and vault_balance higher by exactly amount, within the u64 range; the only
\* other outcomes of an allowed call are a refusal by the ledger and Overflow
\* when the sum would leave the range. A failed call changes nothing.
C25_FundCampaign ==
    \A c \in DOMAIN campaign, a \in Signers, amount \in C25_Amounts,
       frozen \in BOOLEAN :
        LET r == fund_airdrop_campaign(St, c, a, amount, frozen)
            allowed == /\ a = campaign[c].creator
                       /\ amount > 0
                       /\ campaign[c].status \in {"Open", "RegistrationClosed"}
        IN
        /\ r.err = "Ok" => allowed
        /\ r.err = "Ok" =>
              /\ r.s.token[a] = token[a] - amount
              /\ r.s.token[c] = BalanceOf(token, c) + amount
              /\ r.s.campaign[c].vault_balance = campaign[c].vault_balance + amount
              /\ r.s.campaign[c].vault_balance <= U64_MAX
              /\ r.s.campaign = [campaign EXCEPT ![c].vault_balance = @ + amount]
              /\ r.s.registration = registration
        /\ (a = campaign[c].creator /\ a \in DOMAIN token) =>
              /\ amount = 0 => r.err = "InvalidAmount"
              /\ (amount > 0 /\ campaign[c].status = "Completed") =>
                    r.err = "CampaignNotOpen"
              /\ (allowed /\ ~frozen /\ token[a] >= amount) =>
                    \/ r.err = "Ok"
                    \/ /\ r.err = "Overflow"
                       /\ campaign[c].vault_balance + amount > U64_MAX
        /\ (a # campaign[c].creator /\ a \in DOMAIN token) =>
              r.err = "Unauthorized"
        /\ r.err # "Ok" => Commit(St, r) = St

\* A campaign was just topped up after its registration was closed and after
\* a claim, and a signer who is not the creator holds enough to fund.
C25_Witness ==
    /\ last = [op |-> "fund_airdrop_campaign", err |-> "Ok"]
    /\ \E c \in DOMAIN campaign :
          /\ campaign[c].status = "RegistrationClosed"
          /\ campaign[c].total_claimed > 0
          /\ campaign[c].vault_balance >= 100
          /\ \E b \in DOMAIN token \cap Signers :
                b # campaign[c].creator /\ token[b] >= 100

\* What the claim and the funds of a state are: the claim fields of every
\* registration, the campaigns and the asset ledger.
C26_ClaimsAndFunds(regs, camps, tok) ==
    <<[k \in DOMAIN regs |-> <<regs[k].is_claimed, regs[k].claimed_amount>>],
      camps, tok>>

\* C26: in every reachable state mark_airdrop_distributed succeeds only for
\* the campaign's creator and only on a registration with is_distributed
\* false; it then sets is_distributed, distributed_at = now and the reference
\* given, and nothing else. The creator's call on a registration already
\* marked fails with AlreadyDistributed, and every failed call changes
\* nothing. Succeeding or failing, the call leaves is_claimed, claimed_amount,
\* the campaigns (vault_balance and total_claimed included) and the asset
\* ledger as they were.
C26_MarkCalls ==
    \A k \in DOMAIN registration, a \in Signers, x \in TxSignatures :
        LET r == mark_airdrop_distributed(St, k[1], k[2], a, x, now)
            creator == a = campaign[k[1]].creator
            marked == registration[k].is_distributed
        IN
        /\ r.err = "Ok" <=> (creator /\ ~marked)
        /\ r.err = "Ok" =>
              r.s = [St EXCEPT !.registration[k] =
                        [registration[k] EXCEPT !.is_distributed = TRUE,
                                                !.distributed_at = now,
                                                !.distribution_tx = x]]
        /\ (creator /\ marked) => r.err = "AlreadyDistributed"
        /\ r.err # "Ok" => Commit(St, r) = St
        /\ C26_ClaimsAndFunds(Commit(St, r).registration, Commit(St, r).campaign,
                              Commit(St, r).token)
               = C26_ClaimsAndFunds(registration, campaign, token)

C26_MarkStep ==
    \A k \in DOMAIN registration :
        /\ k \in DOMAIN registration'
        /\ registration[k].is_distributed => registration'[k].is_distributed
        /\ registration'[k].is_distributed # registration[k].is_distributed =>
              /\ last' = [op |-> "mark_airdrop_distributed", err |-> "Ok"]
              /\ C26_ClaimsAndFunds(registration', campaign', token')
                     = C26_ClaimsAndFunds(registration, campaign, token)
        /\ registration[k].is_distributed =>
              /\ registration'[k].distributed_at = registration[k].distributed_at
              /\ registration'[k].distribution_tx = registration[k].distribution_tx

C26_MarkDistributed == [](C26_MarkCalls) /\ [][C26_MarkStep]_vars

\* A second marking of a registration that was both marked and claimed was
\* just refused.
C26_Witness ==
    /\ last = [op |-> "mark_airdrop_distributed", err |-> "AlreadyDistributed"]
    /\ \E k \in DOMAIN registration :
          /\ registration[k].is_distributed /\ registration[k].is_claimed
          /\ registration[k].distribution_tx = "tx1"
          /\ registration[k].distributed_at < now

\* The three counters that count successful calls.
C27_Counters(s) ==
    <<s.config["config"].total_proofs_verified,
      [v \in DOMAIN s.verifier_account |-> s.verifier_account[v].attestation_count],
      [c \in DOMAIN s.campaign |-> s.campaign[c].total_claimed]>>

\* C27, record_attestation: from every reachable state, whichever of two
\* calls on the same nullifier the host runs first, if the first succeeds the
\* second fails and changes nothing, and it fails with NullifierAlreadyUsed
\* whenever it is a call that would have succeeded had it run first, also
\* through a different verifier or for a different wallet; the successful
\* call adds exactly one to total_proofs_verified and to its verifier's
\* attestation_count.
C27_AttestationRace ==
    \A a \in RaceInputs, b \in RaceInputs :
        a.nullifier = b.nullifier =>
            LET r1 == record_attestation(St, a, now)
                s1 == Commit(St, r1)
                r2 == record_attestation(s1, b, now)
            IN
            r1.err = "Ok" =>
                /\ r2.err # "Ok"
                /\ Commit(s1, r2) = s1
                /\ record_attestation(St, b, now).err = "Ok" =>
                       r2.err = "NullifierAlreadyUsed"
                /\ s1.config["config"].total_proofs_verified =
                       config["config"].total_proofs_verified + 1
                /\ \A v \in DOMAIN verifier_account :
                       s1.verifier_account[v].attestation_count =
                           verifier_account[v].attestation_count
                           + (IF v = a.verifier THEN 1 ELSE 0)

\* C27, claim_airdrop: from every reachable state, whichever of two claims on
\* the same registration runs first, by whichever claimers, if the first
\* succeeds the second fails with AlreadyClaimed and changes nothing; the
\* successful claim adds exactly one to total_claimed.
C27_ClaimRace ==
    \A k \in DOMAIN registration, p \in Signers, q \in Signers,
       f1 \in BOOLEAN, f2 \in BOOLEAN :
        LET r1 == claim_airdrop(St, k[1], k[2], p, f1, now)
            s1 == Commit(St, r1)
            r2 == claim_airdrop(s1, k[1], k[2], q, f2, now)
        IN
        r1.err = "Ok" =>
            /\ r2.err = "AlreadyClaimed"
            /\ Commit(s1, r2) = s1
            /\ s1.campaign[k[1]].total_claimed = campaign[k[1]].total_claimed + 1

\* C27, every order: on every step the counters move only in a successful
\* record_attestation or claim_airdrop, no nullifier is consumed and no
\* registration claimed a second time.
C27_SerializedStep ==
    /\ C27_Counters([config |-> config', verifier_account |-> verifier_account',
                     campaign |-> campaign'])
          # C27_Counters(St) =>
              /\ last'.err = "Ok"
              /\ last'.op \in {"record_attestation", "claim_airdrop"}
    /\ \A n \in DOMAIN nullifier_account :
          Used(n) =>
              /\ nullifier_account'[n] = nullifier_account[n]
    /\ \A k \in DOMAIN registration :
          registration[k].is_claimed => registration'[k] = registration[k]

C27_ConflictingCallsSerialized ==
    [](C27_AttestationRace /\ C27_ClaimRace) /\ [][C27_SerializedStep]_vars

\* Both races have been run: n2 was attested through v2 and then refused, and
\* a second claim on a claimed registration was just refused.
C27_Witness ==
    /\ last = [op |-> "claim_airdrop", err |-> "AlreadyClaimed"]
    /\ Used("n2")
    /\ verifier_account["v2"].attestation_count = 1
    /\ config["config"].total_proofs_verified = 2
    /\ \E k \in DOMAIN registration : registration[k].is_claimed
    /\ \A a \in RaceInputs :
          a.nullifier = "n2" =>
              record_attestation(St, a, now).err = "NullifierAlreadyUsed"

\* C28: claim_airdrop on the registration a wallet created through
\* register_for_airdrop_open succeeds only when that wallet is the claimer, so
\* that the tokens of a claimed open registration went to the wallet that
\* registered it.
C28_OnlyRegistrantClaims ==
    \A k \in DOMAIN registration, p \in Signers :
        (k[2] \in Signers /\ p # k[2]) =>
            claim_airdrop(St, k[1], k[2], p, FALSE, now).err # "Ok"

\* A signer other than the registrant has taken the tokens of bob's open
\* registration: it is claimed and bob holds nothing.
C28_Witness ==
    /\ last = [op |-> "claim_airdrop", err |-> "Ok"]
    /\ <<"c1", "bob">> \in DOMAIN registration
    /\ registration[<<"c1", "bob">>].is_claimed
    /\ registration[<<"c1", "bob">>].claimed_amount = 100
    /\ BalanceOf(token, "bob") = 0
    /\ BalanceOf(token, "alice") >= 100

\* The proof type a code stands for.
C29_ProofTypeOf(code) ==
    IF code = 1 THEN "DeveloperReputation" ELSE "WhaleTrading"

\* C29, the call: in every reachable state a record_attestation with code 1 or
\* 2 that succeeds leaves the named nullifier record with is_used = true,
\* used_at = now and the proof type of the code, adds exactly one to the named
\* verifier's attestation_count, to config.total_proofs_verified and to the
\* recipient's total_proofs, and leaves every other nullifier, verifier and
\* rate-limit record, and every other field of the verifier and the config, as
\* it was.
C29_AttestationEffect ==
    \A a \in RaceInputs :
        LET r == record_attestation(St, a, now) IN
        r.err = "Ok" =>
            /\ a.proof_type_value \in {1, 2}
            /\ r.s.nullifier_account =
                   [nullifier_account EXCEPT ![a.nullifier] =
                       [@ EXCEPT !.is_used = TRUE, !.used_at = now,
                                 !.proof_type = C29_ProofTypeOf(a.proof_type_value)]]
            /\ r.s.verifier_account =
                   [verifier_account EXCEPT ![a.verifier].attestation_count = @ + 1]
            /\ r.s.config =
                   [config EXCEPT !["config"].total_proofs_verified = @ + 1]
            /\ r.s.rate_limit[a.recipient].total_proofs =
                   rate_limit[a.recipient].total_proofs + 1
            /\ r.s.rate_limit[a.recipient].wallet = rate_limit[a.recipient].wallet
            /\ DOMAIN r.s.rate_limit = DOMAIN rate_limit
            /\ \A w \in DOMAIN rate_limit :
                   w # a.recipient => r.s.rate_limit[w] = rate_limit[w]
            /\ r.s.campaign = campaign
            /\ r.s.registration = registration
            /\ r.s.token = token

\* C29, the step: a step that consumes a nullifier is a successful
\* record_attestation that consumes only that one, and counts exactly one
\* proof in the config, at exactly one verifier and for exactly one wallet.
C29_AttestationStep ==
    \A n \in DOMAIN nullifier_account :
        (~Used(n) /\ nullifier_account'[n].is_used) =>
            /\ last' = [op |-> "record_attestation", err |-> "Ok"]
            /\ nullifier_account'[n].used_at = now
            /\ nullifier_account'[n].proof_type \in
                   {"DeveloperReputation", "WhaleTrading"}
            /\ \A m \in DOMAIN nullifier_account :
                   m # n => nullifier_account'[m] = nullifier_account[m]
            /\ config'["config"].total_proofs_verified =
                   config["config"].total_proofs_verified + 1
            /\ \E v \in DOMAIN verifier_account :
                   verifier_account' =
                       [verifier_account EXCEPT ![v].attestation_count = @ + 1]
            /\ \E w \in DOMAIN rate_limit :
                   /\ rate_limit'[w].total_proofs = rate_limit[w].total_proofs + 1
                   /\ \A x \in DOMAIN rate_limit :
                          x # w => rate_limit'[x] = rate_limit[x]

C29_SuccessfulAttestationFrame ==
    [](C29_AttestationEffect) /\ [][C29_AttestationStep]_vars

\* n2 was just issued as WhaleTrading to bob through v2, while n1 keeps the
\* record of its own attestation through v1 for alice.
C29_Witness ==
    /\ last = [op |-> "record_attestation", err |-> "Ok"]
    /\ nullifier_account["n2"] = [nullifier |-> "n2", is_used |-> TRUE,
                                  used_at |-> now, proof_type |-> "WhaleTrading"]
    /\ nullifier_account["n1"].used_at = 61
    /\ verifier_account["v2"].attestation_count = 1
    /\ verifier_account["v1"].attestation_count = 1
    /\ rate_limit["bob"].total_proofs = 1
    /\ rate_limit["alice"].total_proofs = 1
    /\ config["config"].total_proofs_verified = 2

\* The times a rate-limit check of a record is asked about: the present, and
\* the last second of the record's window and the first one after it when
\* they are still to come.
C30_CheckTimes(rl) ==
    {t \in {now, rl.day_start + 86399, rl.day_start + 86400} : t >= now}

\* C30, the check: in every reachable state, a rate-limit check of a wallet's
\* record at time t that succeeds leaves day_start = t and proofs_today = 1
\* when t - day_start >= 86400, and otherwise leaves day_start as it was and
\* proofs_today one higher; either way last_proof_at = t.
C30_WindowUpdate ==
    \A w \in DOMAIN rate_limit :
        "config" \in DOMAIN config =>
            \A t \in C30_CheckTimes(rate_limit[w]) :
                LET old == rate_limit[w]
                    r == check_and_update_rate_limit(old, config["config"], t)
                IN
                r.err = "Ok" =>
                    /\ r.rl.last_proof_at = t
                    /\ IF t - old.day_start >= 86400
                       THEN r.rl.day_start = t /\ r.rl.proofs_today = 1
                       ELSE /\ r.rl.day_start = old.day_start
                            /\ r.rl.proofs_today = old.proofs_today + 1

\* C30, the step: a record's window changes only in a successful
\* record_attestation, made a day or more after the window started, and then
\* starts at the time of the call with that one proof in it; the passing of
\* time alone changes no record, and a successful call within the window adds
\* one to proofs_today.
C30_WindowStep ==
    \A w \in DOMAIN rate_limit :
        /\ w \in DOMAIN rate_limit'
        /\ rate_limit'[w].day_start # rate_limit[w].day_start =>
              /\ last' = [op |-> "record_attestation", err |-> "Ok"]
              /\ now' = now
              /\ now - rate_limit[w].day_start >= 86400
              /\ rate_limit'[w].day_start = now
              /\ rate_limit'[w].proofs_today = 1
              /\ rate_limit'[w].last_proof_at = now
        /\ (/\ rate_limit'[w].day_start = rate_limit[w].day_start
            /\ rate_limit'[w] # rate_limit[w]) =>
              /\ last' = [op |-> "record_attestation", err |-> "Ok"]
              /\ now - rate_limit[w].day_start < 86400
              /\ rate_limit'[w].proofs_today = rate_limit[w].proofs_today + 1
              /\ rate_limit'[w].last_proof_at = now
        /\ now' # now => rate_limit'[w] = rate_limit[w]

C30_LazyWindowReset == [](C30_WindowUpdate) /\ [][C30_WindowStep]_vars

\* A window that held a proof was just replaced by the first successful
\* check made a day or more after it started.
C30_Witness ==
    /\ last = [op |-> "record_attestation", err |-> "Ok"]
    /\ now = 86461
    /\ \E w \in DOMAIN rate_limit :
          /\ rate_limit[w].day_start = 86461
          /\ rate_limit[w].proofs_today = 1
          /\ rate_limit[w].last_proof_at = 86461
          /\ rate_limit[w].total_proofs = 2

\* C31: when check_and_update_rate_limit is called with now earlier than the
\* record's last_proof_at, the cooldown check passes exactly when
\* cooldown_seconds = 0, and fails with RateLimitCooldown otherwise.
C31_ElapsedFlooredAtZero ==
    \A t \in CheckTimes :
        t < rate_limit["alice"].last_proof_at =>
            LET r == check_and_update_rate_limit(rate_limit["alice"],
                                                 config["config"], t)
            IN
            IF config["config"].cooldown_seconds = 0
            THEN r.err # "RateLimitCooldown"
            ELSE r.err = "RateLimitCooldown"

\* A call made with the clock before last_proof_at, under a cooldown of zero,
\* was refused for the cooldown.
C31_Witness ==
    /\ last = [op |-> "check_and_update_rate_limit", err |-> "RateLimitCooldown"]
    /\ config["config"].cooldown_seconds = 0
    /\ now < rate_limit["alice"].last_proof_at

\* The two refusals of the rate-limit check.
C32_Refusals == {"RateLimitCooldown", "DailyRateLimitExceeded"}

\* C32, the call: under every configuration the program can hold, a
\* check_and_update_rate_limit that returns RateLimitCooldown or
\* DailyRateLimitExceeded leaves the record it was given exactly as it was;
\* a call that resets the window does not go on to fail the quota check.
C32_RefusedCheck ==
    \A t \in CheckTimes :
        LET old == rate_limit["alice"]
            r == check_and_update_rate_limit(old, config["config"], t)
        IN
        /\ r.err \in C32_Refusals => r.rl = old
        /\ t - old.day_start >= SECONDS_PER_DAY =>
              r.err # "DailyRateLimitExceeded"

\* C32, the step: a call that returned one of the two refusals left
\* proofs_today, day_start, last_proof_at and total_proofs at their values
\* from before the call.
C32_RefusedStep ==
    (last'.op = "check_and_update_rate_limit" /\ last'.err \in C32_Refusals) =>
        rate_limit' = rate_limit

C32_RefusalLeavesRecord == [](C32_RefusedCheck) /\ [][C32_RefusedStep]_vars

\* The quota was just refused to a record whose window had been started by
\* an earlier call's reset.
C32_Witness ==
    /\ last = [op |-> "check_and_update_rate_limit",
               err |-> "DailyRateLimitExceeded"]
    /\ rate_limit["alice"].day_start = 86400
    /\ rate_limit["alice"].proofs_today >= config["config"].max_proofs_per_day
    /\ rate_limit["alice"].last_proof_at < now

\* C33, the message: build_attestation_message returns 82 bytes, the first 17
\* the ASCII tag "vouch_attestation", then the code, the 32 bytes of the
\* nullifier and the 32 bytes of the hash; two triples give the same message
\* only if they are equal, and a signature over the message of one triple is
\* no valid signature over the message of another.
C33_MessageLayout ==
    \A x \in ReplayTriples :
        LET m == ReplayMessage(x) IN
        /\ Len(m) = 82
        /\ \A i \in 1..17 : m[i] = DOMAIN_TAG[i]
        /\ m[18] = x[1]
        /\ \A i \in 1..32 : m[18 + i] = Bytes32(x[2])[i]
        /\ \A i \in 1..32 : m[50 + i] = Bytes32(x[3])[i]
        /\ \A y \in ReplayTriples :
              /\ ReplayMessage(y) = m => y = x
              /\ y # x => ~Ed25519Valid(Bytes32("v1"), ReplayMessage(y),
                                       Sign("v1", m))

\* C33: a proof signed for one triple is never accepted for another: a
\* record_attestation that carries the verifier's proof for one triple
\* succeeds only if the triple it passes is that one.
C33_ProofBoundToTriple ==
    \A x \in ReplayInputs :
        record_attestation(St, x.args, now).err = "Ok" => x.signed = x.called

\* C33, with the proof right before the call: such a call succeeds only if
\* the triple it passes is the one that was signed.
C33_DirectProofBoundToTriple ==
    \A x \in ReplayInputs :
        (x.shape = "direct" /\ x.signed # x.called
         /\ record_attestation(St, x.args, now).err \notin BeforeSignatureCheck)
            => record_attestation(St, x.args, now).err = "InvalidSignature"

\* A nullifier was consumed by a call whose only proof of the verifier was
\* signed for another triple, naming another nullifier.
C33_Witness ==
    /\ last = [op |-> "record_attestation", err |-> "Ok"]
    /\ \E x \in ReplayInputs :
          /\ x.signed # x.called
          /\ x.signed[2] # x.called[2]
          /\ ~Used(x.signed[2])
          /\ Used(x.called[2])
          /\ nullifier_account[x.called[2]].used_at = now

\* The sum of f[k] over the keys in S.
RECURSIVE C34_Sum(_, _)
C34_Sum(f, S) ==
    IF S = {} THEN 0
    ELSE LET k == CHOOSE x \in S : TRUE IN f[k] + C34_Sum(f, S \ {k})

\* The proofs counted by the config; zero before the config exists, when no
\* attestation can have succeeded.
C34_TotalProofsVerified ==
    IF "config" \in DOMAIN config THEN config["config"].total_proofs_verified ELSE 0

\* C34: in every reachable state config.total_proofs_verified equals the
\* number of nullifier records with is_used = true, the sum of
\* attestation_count over all verifier records, and the sum of total_proofs
\* over all wallet rate-limit records.
C34_ProofCountsAgree ==
    /\ C34_TotalProofsVerified = Cardinality({n \in DOMAIN nullifier_account : Used(n)})
    /\ C34_TotalProofsVerified =
           C34_Sum([v \in DOMAIN verifier_account |->
                       verifier_account[v].attestation_count],
                   DOMAIN verifier_account)
    /\ C34_TotalProofsVerified =
           C34_Sum([w \in DOMAIN rate_limit |-> rate_limit[w].total_proofs],
                   DOMAIN rate_limit)

\* Two proofs are counted, and the verifier that attested them has since been
\* deactivated.
C34_Witness ==
    /\ "config" \in DOMAIN config
    /\ config["config"].total_proofs_verified = 2
    /\ config["config"].verifier_count = 0
    /\ \E v \in DOMAIN verifier_account :
          ~verifier_account[v].is_active /\ verifier_account[v].attestation_count = 2

\* The proof types an attestation records.
C35_Verified == {"DeveloperReputation", "WhaleTrading"}

\* C35: in every reachable state a nullifier record has is_used = true if and
\* only if its proof_type is DeveloperReputation or WhaleTrading, and
\* is_used = false if and only if its proof_type is Unset and used_at = 0;
\* no register_for_airdrop call returns InvalidProofType, none has, and every
\* registration made for a nullifier has a proof type other than Unset.
C35_UsedIffTyped ==
    /\ \A n \in DOMAIN nullifier_account :
          /\ Used(n) <=> nullifier_account[n].proof_type \in C35_Verified
          /\ ~Used(n) <=> (/\ nullifier_account[n].proof_type = "Unset"
                           /\ nullifier_account[n].used_at = 0)
    /\ \A c \in CampaignIds, n \in Nullifiers, len \in RegisterLens :
          register_for_airdrop(St, c, n, len, now).err # "InvalidProofType"
    /\ last # [op |-> "register_for_airdrop", err |-> "InvalidProofType"]
    /\ \A k \in DOMAIN registration :
          k[2] \in Nullifiers => registration[k].proof_type \in C35_Verified

\* An attestation with an invalid code was just refused for a nullifier that
\* stays unused, while the other nullifier is used and registered.
C35_Witness ==
    /\ last = [op |-> "record_attestation", err |-> "InvalidProofType"]
    /\ \E n \in DOMAIN nullifier_account, m \in DOMAIN nullifier_account :
          /\ ~Used(n) /\ nullifier_account[n].proof_type = "Unset"
          /\ Used(m) /\ nullifier_account[m].used_at > 0
          /\ \E c \in DOMAIN campaign :
                /\ <<c, m>> \in DOMAIN registration
                /\ register_for_airdrop(St, c, n, 44, now).err
                       = "NullifierNotVerified"

\* What campaign c has paid out: the sum of claimed_amount over its claimed
\* registrations, among the registrations regs.
C36_PaidOut(regs, c) ==
    LET K == {k \in DOMAIN regs : k[1] = c /\ regs[k].is_claimed} IN
    C34_Sum([k \in K |-> regs[k].claimed_amount], K)

\* C36, the state: every campaign's vault_balance is the balance of its vault
\* in the asset ledger.
C36_VaultMatchesLedger ==
    \A c \in DOMAIN campaign : campaign[c].vault_balance = BalanceOf(token, c)

\* C36, the step: a campaign starts with vault_balance 0 and nothing paid out;
\* vault_balance plus what was paid out, the sum of all funded amounts, grows
\* only in a successful fund_airdrop_campaign and by exactly what left the
\* creator's account; and a claim takes its claimed_amount out of a
\* vault_balance at least that large, so the saturating subtraction never
\* clamps.
C36_VaultStep ==
    /\ \A c \in DOMAIN campaign' :
          c \notin DOMAIN campaign =>
              campaign'[c].vault_balance = 0 /\ C36_PaidOut(registration', c) = 0
    /\ \A c \in DOMAIN campaign :
          LET before == campaign[c].vault_balance + C36_PaidOut(registration, c)
              after == campaign'[c].vault_balance + C36_PaidOut(registration', c)
              creator == campaign[c].creator
          IN
          /\ after # before =>
                /\ last' = [op |-> "fund_airdrop_campaign", err |-> "Ok"]
                /\ after - before = token[creator] - token'[creator]
                /\ after > before
          /\ \A k \in DOMAIN registration :
                (k[1] = c /\ ClaimedNow(k)) =>
                    /\ campaign[c].vault_balance >= registration'[k].claimed_amount
                    /\ campaign'[c].vault_balance =
                           campaign[c].vault_balance - registration'[k].claimed_amount

C36_VaultBalanceAccounts == [](C36_VaultMatchesLedger) /\ [][C36_VaultStep]_vars

\* A campaign funded more than once has paid a claim and holds the rest.
C36_Witness ==
    \E c \in DOMAIN campaign :
        /\ C36_PaidOut(registration, c) = 150
        /\ campaign[c].vault_balance = 50
        /\ BalanceOf(token, c) = 50
        /\ campaign[c].total_claimed = 1

\* The amount registration k would be paid by its campaign.
C37_Amount(k) ==
    claim_amount_of(registration[k].proof_type, campaign[k[1]].base_amount,
                    campaign[k[1]].dev_bonus, campaign[k[1]].whale_bonus)

\* C37: for every unclaimed registration whose vault holds its claim amount,
\* claim_airdrop by any signer, with a ledger that accepts the transfer,
\* succeeds in every reachable state: whatever the campaign's status, before
\* and after the registration deadline, paused or not, marked distributed or
\* not.
C37_ClaimIgnoresLifecycle ==
    \A k \in DOMAIN registration :
        (/\ ~registration[k].is_claimed
         /\ C37_Amount(k) >= 0
         /\ BalanceOf(token, k[1]) >= C37_Amount(k)
         /\ campaign[k[1]].total_claimed < U32_MAX) =>
            \A a \in Signers :
                claim_airdrop(St, k[1], k[2], a, FALSE, now).err = "Ok"

\* A claim has just succeeded in a completed campaign, with registration past
\* its deadline, the protocol paused, on a registration marked distributed.
C37_Witness ==
    /\ last = [op |-> "claim_airdrop", err |-> "Ok"]
    /\ config["config"].is_paused
    /\ \E k \in DOMAIN registration :
          /\ campaign[k[1]].status = "Completed"
          /\ registration[k].is_claimed
          /\ registration[k].is_distributed
          /\ registration[k].claimed_at = now
          /\ ~BeforeDeadline(k[1])

====
